---- MODULE Spec2Model ----
(***************************************************************************)
(* Request-coalescing queues of the item picker.                           *)
(*                                                                         *)
(* Client (src/src/api/client.ts): BatchQueryQueue, AddQueue and           *)
(* LatestPayloadQueue, each with a timer, a pending collection and an      *)
(* asynchronous dispatcher.                                                *)
(* Server (src/unnamed/part_000): createQueryBatcher,                      *)
(* createSelectionBatcher and createAddBatcher over the shared store       *)
(* (addedIds, addedIdCache, selectedIds, selectedLookup).                  *)
(*                                                                         *)
(* A waiter is the promise an enqueue returns.  Waiters are numbered in    *)
(* the order of the enqueue calls; outcomes[w] is the sequence of          *)
(* resolve/reject calls made on waiter w.                                  *)
(***************************************************************************)
EXTENDS Integers, Sequences, FiniteSets, TLC

(* ------------------------------ bounds -------------------------------- *)
\* total number of enqueue calls (over all six queues) in a behaviour
MaxCalls == 2
\* enqueue calls in a behaviour of the timed specification
MaxTimedCalls == 2
\* granularity of the clock of the timed specification, in milliseconds
TickMs == 5000
\* the clock of the timed specification stops here
MaxNow == 15000
\* the persistSelection calls of a behaviour of the selection path
MaxPersist == 2
\* the page fetches of a behaviour of the view, those of the mount included
MaxFetches == 3

(* ------------------------- program constants -------------------------- *)
BASE_MAX_ID == 1000000
PAGE_LIMIT == 20
QUERY_BATCH_INTERVAL == 1000
SELECTION_BATCH_INTERVAL == 1000
ADD_BATCH_INTERVAL == 10000
queryQueueIntervalMs == 1000
addQueueIntervalMs == 10000
selectionQueueIntervalMs == 1000

(* ------------------------------ helpers ------------------------------- *)
\* a nullable value: null or one value
None == <<>>
Some(x) == <<x>>

Range(s) == {s[i] : i \in DOMAIN s}

\* the error objects of the client queues
\* (the messages are Russian text in the source; named here by their meaning)
ErrNoKey == [err |-> "request must contain a key"]
ErrMissing == [err |-> "server returned no result for the request"]
ErrBadId == [err |-> "ID must be a positive integer"]
\* the error a failing dispatcher of cycle c throws
DispatchError(q, c) == [err |-> "dispatch", q |-> q, cyc |-> c]

VARIABLES
  now,          \* the clock, in milliseconds
  calls,        \* calls[w]: the enqueue call that created waiter w
  outcomes,     \* outcomes[w]: the resolve/reject calls made on waiter w
  cqPending,    \* BatchQueryQueue.pending (a Map, in insertion order)
  cqTimer,      \* BatchQueryQueue.timer
  cqCycles,     \* BatchQueryQueue.flush activations: entries, dispatcher call
  caPending,    \* AddQueue.pending (a Map, in insertion order)
  caTimer,      \* AddQueue.timer
  caCycles,     \* AddQueue.flush activations
  csPending,    \* LatestPayloadQueue.pending
  csTimer,      \* LatestPayloadQueue.timer
  csCycles,     \* LatestPayloadQueue.flush activations
  addedIds,     \* server: the overflow set
  addedIdCache, \* server: the cached sorted overflow list, or null
  selectedIds,  \* server: the committed selection, in order
  selectedLookup, \* server: the lookup set of the committed selection
  sqPending,    \* createQueryBatcher: pending
  sqTimer,      \* createQueryBatcher: timer
  sqCycles,     \* createQueryBatcher: the flushes that processed a batch
  ssLatest,     \* createSelectionBatcher: latest
  ssResolvers,  \* createSelectionBatcher: resolvers
  ssTimer,      \* createSelectionBatcher: timer
  ssCycles,     \* createSelectionBatcher: the flushes that committed
  saPending,    \* createAddBatcher: pendingRequests
  saTimer,      \* createAddBatcher: timer
  saCycles,     \* createAddBatcher: the flushes that processed a batch
  timeouts,     \* timeouts[q]: the deadlines of the timeouts queue q has set
                \* with setTimeout that have neither fired nor been cleared
  http,         \* the POST /api/selection requests the server has received:
                \* the client cycle that sent each and the server waiter it got
  view,         \* App: view[list] is the state of one of the two lists
  fetches       \* App: the calls of fetchAvailablePage and fetchSelectedPage

cqVars == <<cqPending, cqTimer, cqCycles>>
caVars == <<caPending, caTimer, caCycles>>
csVars == <<csPending, csTimer, csCycles>>
storeVars == <<addedIds, addedIdCache, selectedIds, selectedLookup>>
sqVars == <<sqPending, sqTimer, sqCycles>>
ssVars == <<ssLatest, ssResolvers, ssTimer, ssCycles>>
saVars == <<saPending, saTimer, saCycles>>
clientVars == <<cqVars, caVars, csVars>>
serverVars == <<storeVars, sqVars, ssVars, saVars>>
queueVars == <<now, calls, outcomes, timeouts, clientVars, serverVars>>
viewVars == <<view, fetches>>
vars == <<queueVars, http, viewVars>>

(* ------------------------------ waiters ------------------------------- *)
\* the promise constructor: a new waiter with no outcome yet
NewWaiter == Len(calls) + 1

\* resolve(value) / reject(error) called on a waiter by cycle cyc of its queue
Resolved(v, cyc) == [ok |-> TRUE, val |-> v, cyc |-> cyc, at |-> now]
Rejected(e, cyc) == [ok |-> FALSE, val |-> e, cyc |-> cyc, at |-> now]

\* one call of a resolver: resolve/reject of waiter w with outcome o
ResolverCall(w, o) == [w |-> w, o |-> o]

RECURSIVE Concat(_)
\* the concatenation of a sequence of sequences
Concat(ss) == IF ss = <<>> THEN <<>> ELSE Head(ss) \o Concat(Tail(ss))

\* resolvers.forEach(f): the resolver calls made for one list of waiters
ForEach(resolvers, o) == [j \in DOMAIN resolvers |-> ResolverCall(resolvers[j], o)]

\* the outcomes the resolver calls rc (in program order) give waiter w
OutcomesFor(w, rc) ==
  LET mine == SelectSeq(rc, LAMBDA x : x.w = w) IN [i \in DOMAIN mine |-> mine[i].o]

\* perform the resolver calls rc
Settle(rc) ==
  outcomes' = [w \in DOMAIN outcomes |-> outcomes[w] \o OutcomesFor(w, rc)]

\* the call record of an enqueue on queue q with argument arg, made after
\* `seen` batches of q had been captured by a flush
Call(q, arg, seen) == [q |-> q, arg |-> arg, at |-> now, seen |-> seen]

\* the queue instances
Queues == {"cq", "ca", "cs", "sq", "ss", "sa"}

\* a sequence without its i-th element
RemoveAt(s, i) == SubSeq(s, 1, i - 1) \o SubSeq(s, i + 1, Len(s))

\* schedule() with the test inverted
MustArmInverted(timer) == timer # None

\* schedule() without the test
MustArmAlways(timer) == TRUE

\* schedule(): `if (this.timer) return`, on the server `if (!timer)`
MustArm(timer) == timer = None

\* the timer handle after schedule()
Schedule(timer, intervalMs) ==
  IF MustArm(timer) THEN Some(now + intervalMs) ELSE timer

\* schedule() as a debounce: every enqueue replaces the outstanding timeout
ScheduleTimeoutsDebounce(q, timer, intervalMs) ==
  [timeouts EXCEPT ![q] = <<now + intervalMs>>]

\* the outstanding timeouts after schedule() of queue q
ScheduleTimeouts(q, timer, intervalMs) ==
  IF MustArm(timer) THEN [timeouts EXCEPT ![q] = Append(@, now + intervalMs)]
  ELSE timeouts

\* clearTimeout(handle) on a list of outstanding timeouts
ClearTimeout(list, timer) ==
  IF timer # None /\ \E i \in DOMAIN list : list[i] = timer[1]
  THEN RemoveAt(list, CHOOSE i \in DOMAIN list : list[i] = timer[1])
  ELSE list

\* the timeouts of q once its i-th timeout has fired and its callback has
\* cleared the handle `timer` (the server's callbacks clear nothing)
Fired(q, i, timer) ==
  [timeouts EXCEPT ![q] = ClearTimeout(RemoveAt(@, i), timer)]

\* a flush that leaves the pending collection as it is
ClearedKeeps(pending) == pending

\* this.pending.clear() / pending = [] / pendingRequests.length = 0
Cleared(pending) == <<>>

(* --------------------- client: BatchQueryQueue ------------------------ *)
QueryRequest(k, f) == [key |-> k, type |-> "available", filter |-> f]
CQRequests == {QueryRequest("p0", "1"), QueryRequest("p0", "12"),
               QueryRequest("p1", "1"), QueryRequest("", "1")}

\* index of the pending entry of key k, 0 when there is none
CQIndex(pending, k) ==
  IF \E i \in DOMAIN pending : pending[i].key = k
  THEN CHOOSE i \in DOMAIN pending : pending[i].key = k
  ELSE 0

\* a merge that appends the waiter but keeps the first request
CQMergeKeepFirst(existing, request, w) ==
  [key |-> existing.key, request |-> existing.request,
   resolvers |-> Append(existing.resolvers, w)]

\* existing.request = request; existing.resolvers.push(resolver)
CQMerge(existing, request, w) ==
  [key |-> existing.key, request |-> request,
   resolvers |-> Append(existing.resolvers, w)]

\* an enqueue without the key test
CQValidAlways(request) == TRUE

\* BatchQueryQueue.enqueue: the test `!request?.key` fails
CQValid(request) == request.key # ""

CQEnqueue(request) ==
  /\ calls' = Append(calls, Call("cq", request, Len(cqCycles)))
  /\ IF ~CQValid(request)
     THEN /\ outcomes' = Append(outcomes, <<Rejected(ErrNoKey, 0)>>)
          /\ UNCHANGED <<cqPending, cqTimer, timeouts>>
     ELSE /\ outcomes' = Append(outcomes, <<>>)
          /\ LET i == CQIndex(cqPending, request.key) IN
             cqPending' =
               IF i # 0
               THEN [cqPending EXCEPT ![i] = CQMerge(@, request, NewWaiter)]
               ELSE Append(cqPending,
                           [key |-> request.key, request |-> request,
                            resolvers |-> <<NewWaiter>>])
          /\ cqTimer' = Schedule(cqTimer, queryQueueIntervalMs)
          /\ timeouts' = ScheduleTimeouts("cq", cqTimer, queryQueueIntervalMs)
  /\ UNCHANGED <<now, http, viewVars, cqCycles, caVars, csVars, serverVars>>

\* entries.map(([, value]) => value.request)
CQRequestsOf(entries) == [i \in DOMAIN entries |-> entries[i].request]

\* the callback of the i-th timeout: flush up to the await of the dispatcher
CQFlush(t) ==
  /\ t \in DOMAIN timeouts.cq
  /\ timeouts' = Fired("cq", t, cqTimer)
  /\ cqTimer' = None
  /\ IF cqPending = <<>>
     THEN UNCHANGED <<cqPending, cqCycles>>
     ELSE /\ cqPending' = Cleared(cqPending)
          /\ cqCycles' = Append(cqCycles,
                                [entries |-> cqPending,
                                 requests |-> CQRequestsOf(cqPending),
                                 st |-> "run", at |-> now,
                                 resp |-> None,
                                 held |-> Cleared(cqPending), timerHeld |-> None])
  /\ UNCHANGED <<now, http, viewVars, calls, outcomes, caVars, csVars, serverVars>>

\* what the dispatcher computes for one request
QueryResultFor(request) == [forRequest |-> request]

\* the outcomes of the dispatcher: it throws, or returns a response map that
\* holds a result for some of the requested keys
CQResponses(requests) ==
  {[fail |-> TRUE, map |-> <<>>]} \cup
  {[fail |-> FALSE,
    map |-> [i \in DOMAIN requests |->
               IF requests[i].key \in present
               THEN Some(QueryResultFor(requests[i])) ELSE None]] :
     present \in SUBSET {requests[i].key : i \in DOMAIN requests}}

\* a catch block that rejects the resolvers of the first entry only
RejectFirstOnly(q, c, resolverLists) ==
  ForEach(resolverLists[1], Rejected(DispatchError(q, c), c))

\* a catch block that also rejects the resolvers now pending in the queue
RejectAlsoPending(q, c, resolverLists) ==
  Concat([i \in DOMAIN resolverLists |->
            ForEach(resolverLists[i], Rejected(DispatchError(q, c), c))])
  \o (IF q = "cq"
      THEN Concat([i \in DOMAIN cqPending |->
                     ForEach(cqPending[i].resolvers, Rejected(DispatchError(q, c), c))])
      ELSE IF q = "ca"
      THEN Concat([i \in DOMAIN caPending |->
                     ForEach(caPending[i].resolvers, Rejected(DispatchError(q, c), c))])
      ELSE IF csPending # None
      THEN ForEach(csPending[1].resolvers, Rejected(DispatchError(q, c), c))
      ELSE <<>>)

\* the catch block of a client flush of queue q: reject every resolver
RejectAll(q, c, resolverLists) ==
  Concat([i \in DOMAIN resolverLists |->
            ForEach(resolverLists[i], Rejected(DispatchError(q, c), c))])

\* a flush whose rejection runs in a finally block, after the try block too
CQDeliverFinally(c, entries, resp) ==
  (IF resp.fail THEN <<>>
   ELSE Concat([i \in DOMAIN entries |->
                  ForEach(entries[i].resolvers,
                          IF resp.map[i] = None THEN Rejected(ErrMissing, c)
                          ELSE Resolved(resp.map[i][1], c))]))
  \o Concat([i \in DOMAIN entries |->
               ForEach(entries[i].resolvers, Rejected(DispatchError("cq", c), c))])

\* a loop that skips the entries whose key the response map lacks
CQDeliverSkipMissing(c, entries, resp) ==
  IF resp.fail
  THEN RejectAll("cq", c, [i \in DOMAIN entries |-> entries[i].resolvers])
  ELSE Concat([i \in DOMAIN entries |->
                 IF resp.map[i] = None THEN <<>>
                 ELSE ForEach(entries[i].resolvers, Resolved(resp.map[i][1], c))])

\* flush after the await: the try block's loop or the catch block
CQDeliver(c, entries, resp) ==
  IF resp.fail
  THEN RejectAll("cq", c, [i \in DOMAIN entries |-> entries[i].resolvers])
  ELSE Concat([i \in DOMAIN entries |->
                 ForEach(entries[i].resolvers,
                         IF resp.map[i] = None THEN Rejected(ErrMissing, c)
                         ELSE Resolved(resp.map[i][1], c))])

\* a catch block that puts the entries of a failed batch back into pending
CQRequeueFailed(pending, entries, resp) ==
  IF resp.fail THEN entries \o pending ELSE pending

\* the pending map once flush has handled the dispatcher's outcome: neither
\* the try block nor the catch block touches this.pending
CQAfterDispatch(pending, entries, resp) == pending

CQDispatchDone(c, resp) ==
  /\ c \in DOMAIN cqCycles
  /\ cqCycles[c].st = "run"
  /\ resp \in CQResponses(cqCycles[c].requests)
  /\ cqCycles' = [cqCycles EXCEPT ![c].st = IF resp.fail THEN "fail" ELSE "ok",
                                  ![c].resp = Some(resp)]
  /\ Settle(CQDeliver(c, cqCycles[c].entries, resp))
  /\ cqPending' = CQAfterDispatch(cqPending, cqCycles[c].entries, resp)
  /\ UNCHANGED <<now, http, viewVars, calls, timeouts, cqTimer, caVars, csVars, serverVars>>

(* -------------------------- client: AddQueue -------------------------- *)
\* the ids the view hands to enqueueAddition: one invalid, two valid
CAIds == {0, BASE_MAX_ID + 1, BASE_MAX_ID + 2}

\* index of the pending entry of id, 0 when there is none
CAIndex(pending, id) ==
  IF \E i \in DOMAIN pending : pending[i].id = id
  THEN CHOOSE i \in DOMAIN pending : pending[i].id = id
  ELSE 0

\* AddQueue.enqueue: the test `!Number.isInteger(id) || id <= 0` fails
\* (the ids of the model are integers)
CAValid(id) == id > 0

CAEnqueue(id) ==
  /\ calls' = Append(calls, Call("ca", id, Len(caCycles)))
  /\ IF ~CAValid(id)
     THEN /\ outcomes' = Append(outcomes, <<Rejected(ErrBadId, 0)>>)
          /\ UNCHANGED <<caPending, caTimer, timeouts>>
     ELSE /\ outcomes' = Append(outcomes, <<>>)
          /\ LET i == CAIndex(caPending, id) IN
             caPending' =
               IF i # 0
               THEN [caPending EXCEPT ![i].resolvers = Append(@, NewWaiter)]
               ELSE Append(caPending, [id |-> id, resolvers |-> <<NewWaiter>>])
          /\ caTimer' = Schedule(caTimer, addQueueIntervalMs)
          /\ timeouts' = ScheduleTimeouts("ca", caTimer, addQueueIntervalMs)
  /\ UNCHANGED <<now, http, viewVars, caCycles, cqVars, csVars, serverVars>>

\* entries.map(([id]) => id)
CAIdsOf(entries) == [i \in DOMAIN entries |-> entries[i].id]

CAFlush(t) ==
  /\ t \in DOMAIN timeouts.ca
  /\ timeouts' = Fired("ca", t, caTimer)
  /\ caTimer' = None
  /\ IF caPending = <<>>
     THEN UNCHANGED <<caPending, caCycles>>
     ELSE /\ caPending' = Cleared(caPending)
          /\ caCycles' = Append(caCycles,
                                [entries |-> caPending,
                                 requests |-> CAIdsOf(caPending),
                                 st |-> "run", at |-> now,
                                 resp |-> None,
                                 held |-> Cleared(caPending), timerHeld |-> None])
  /\ UNCHANGED <<now, http, viewVars, calls, outcomes, cqVars, csVars, serverVars>>

\* the reason a rejected record of the response carries for id
ReasonFor(id) == [reason |-> "rejected", id |-> id]
\* the default message of an id that is in neither list
MsgNotAdded == "ID was not added"
MsgAdded(id) == [added |-> id]

\* the outcomes of the dispatcher: it throws, or returns added and rejected
CAResponses(ids) ==
  {[fail |-> TRUE, added |-> {}, rejected |-> {}]} \cup
  {[fail |-> FALSE, added |-> A, rejected |-> R] :
     A \in SUBSET Range(ids), R \in SUBSET Range(ids)}

\* a payload that looks at the rejected list before the added list
CAPayloadRejectedFirst(id, resp) ==
  IF id \in resp.rejected
  THEN [id |-> id, success |-> FALSE, message |-> ReasonFor(id)]
  ELSE IF id \in resp.added
  THEN [id |-> id, success |-> TRUE, message |-> MsgAdded(id)]
  ELSE [id |-> id, success |-> FALSE, message |-> MsgNotAdded]

\* the payload flush builds for one id from the response
CAPayload(id, resp) ==
  IF id \in resp.added
  THEN [id |-> id, success |-> TRUE, message |-> MsgAdded(id)]
  ELSE [id |-> id, success |-> FALSE,
        message |-> IF id \in resp.rejected THEN ReasonFor(id) ELSE MsgNotAdded]

CADeliver(c, entries, resp) ==
  IF resp.fail
  THEN RejectAll("ca", c, [i \in DOMAIN entries |-> entries[i].resolvers])
  ELSE Concat([i \in DOMAIN entries |->
                 ForEach(entries[i].resolvers,
                         Resolved(CAPayload(entries[i].id, resp), c))])

CADispatchDone(c, resp) ==
  /\ c \in DOMAIN caCycles
  /\ caCycles[c].st = "run"
  /\ resp \in CAResponses(caCycles[c].requests)
  /\ caCycles' = [caCycles EXCEPT ![c].st = IF resp.fail THEN "fail" ELSE "ok",
                                  ![c].resp = Some(resp)]
  /\ Settle(CADeliver(c, caCycles[c].entries, resp))
  /\ UNCHANGED <<now, http, viewVars, calls, timeouts, caPending, caTimer, cqVars, csVars,
                 serverVars>>

(* --------------------- client: LatestPayloadQueue --------------------- *)
\* the id lists the view hands to persistSelection
CSPayloads == {<<1, 2>>, <<2, 1>>}

\* a merge that appends the waiter but keeps the first payload
CSMergeKeepFirst(pending, payload, w) ==
  [payload |-> pending.payload, resolvers |-> Append(pending.resolvers, w)]

\* this.pending.payload = payload; this.pending.resolvers.push(resolver)
CSMerge(pending, payload, w) ==
  [payload |-> payload, resolvers |-> Append(pending.resolvers, w)]

CSEnqueue(payload) ==
  /\ calls' = Append(calls, Call("cs", payload, Len(csCycles)))
  /\ outcomes' = Append(outcomes, <<>>)
  /\ csPending' =
       IF csPending # None
       THEN Some(CSMerge(csPending[1], payload, NewWaiter))
       ELSE Some([payload |-> payload, resolvers |-> <<NewWaiter>>])
  /\ csTimer' = Schedule(csTimer, selectionQueueIntervalMs)
  /\ timeouts' = ScheduleTimeouts("cs", csTimer, selectionQueueIntervalMs)
  /\ UNCHANGED <<now, http, viewVars, csCycles, cqVars, caVars, serverVars>>

CSFlush(t) ==
  /\ t \in DOMAIN timeouts.cs
  /\ timeouts' = Fired("cs", t, csTimer)
  /\ csTimer' = None
  /\ IF csPending = None
     THEN UNCHANGED <<csPending, csCycles>>
     ELSE /\ csPending' = Cleared(csPending)
          /\ csCycles' = Append(csCycles,
                                [current |-> csPending[1],
                                 requests |-> csPending[1].payload,
                                 st |-> "run", at |-> now,
                                 held |-> Cleared(csPending), timerHeld |-> None])
  /\ UNCHANGED <<now, http, viewVars, calls, outcomes, cqVars, caVars, serverVars>>

\* what the dispatcher returns for the payload it was called with
SaveResultFor(payload) == [saved |-> payload]

CSDeliver(c, current, fail) ==
  IF fail THEN RejectAll("cs", c, <<current.resolvers>>)
  ELSE ForEach(current.resolvers, Resolved(SaveResultFor(current.payload), c))

CSDispatchDone(c, fail) ==
  /\ c \in DOMAIN csCycles
  /\ csCycles[c].st = "run"
  /\ csCycles' = [csCycles EXCEPT ![c].st = IF fail THEN "fail" ELSE "ok"]
  /\ Settle(CSDeliver(c, csCycles[c].current, fail))
  /\ UNCHANGED <<now, http, viewVars, calls, timeouts, csPending, csTimer, cqVars, caVars,
                 serverVars>>

(* --------------------------- server: store ---------------------------- *)
\* JSON values that arrive in an ids array: a number, a numeric string, a
\* string that is not a number
JsNum(n) == [t |-> "number", v |-> n]
JsStr(n) == [t |-> "string", v |-> n]
JsText == [t |-> "text", v |-> 0]
NaN == [t |-> "NaN", v |-> 0]

\* Number(raw)
ToNumber(raw) ==
  IF raw.t = "number" THEN raw
  ELSE IF raw.t = "string" THEN JsNum(raw.v)
  ELSE NaN

\* Number.isInteger(id) && id > 0
IsPositiveInteger(x) == x.t = "number" /\ x.v > 0

Min(a, b) == IF a <= b THEN a ELSE b

RECURSIVE SortAscending(_)
\* Array.from(set).sort((a, b) => a - b)
SortAscending(S) ==
  IF S = {} THEN <<>>
  ELSE LET m == CHOOSE x \in S : \A y \in S : x <= y
       IN <<m>> \o SortAscending(S \ {m})

\* a lookup that takes every positive integer for an existing id
hasIdAnyPositive(rawId, added) == IsPositiveInteger(ToNumber(rawId))

hasId(rawId, added) ==
  LET id == ToNumber(rawId) IN
  IF ~IsPositiveInteger(id) THEN FALSE
  ELSE IF id.v >= 1 /\ id.v <= BASE_MAX_ID THEN TRUE
  ELSE id.v \in added

\* the value getSortedAdded returns (it also stores it in addedIdCache)
getSortedAdded(added, cache) ==
  IF cache = None THEN SortAscending(added) ELSE cache[1]

RECURSIVE Digits(_)
\* String(id) for a positive integer, as its decimal digits
Digits(n) == IF n < 10 THEN <<n>> ELSE Append(Digits(n \div 10), n % 10)

RECURSIVE DigitsValue(_)
DigitsValue(d) == IF d = <<>> THEN 0 ELSE 10 * DigitsValue(SubSeq(d, 1, Len(d) - 1)) + d[Len(d)]

\* text.includes(part)
Includes(text, part) ==
  \E i \in 0..(Len(text) - Len(part)) : SubSeq(text, i + 1, i + Len(part)) = part

\* matchesFilter; a filter is the sequence of its characters (digits),
\* already trimmed
MatchesFilter(id, filter) == filter = <<>> \/ Includes(Digits(id), filter)

clampOffset(value) == IF value >= 0 THEN value ELSE 0
clampLimit(value) == IF value <= 0 THEN PAGE_LIMIT ELSE Min(value, 200)

\* a loop over the base range that does not consult selectedLookup
BaseMatchesAll(filter, lookup, need) ==
  [i \in 1..Min(BASE_MAX_ID, need) |-> i]

\* the ids of the base range that the loop of buildAvailableResult counts,
\* up to the first `need` of them.  With no filter these are found in the
\* first need + |lookup| ids; a filter as long as String(BASE_MAX_ID) can
\* only match the id it spells.
BaseMatches(filter, lookup, need) ==
  IF filter = <<>>
  THEN SelectSeq([i \in 1..Min(BASE_MAX_ID, need + Cardinality(lookup)) |-> i],
                 LAMBDA id : id \notin lookup)
  ELSE IF Len(filter) >= Len(Digits(BASE_MAX_ID))
  THEN SelectSeq(<<DigitsValue(filter)>>,
                 LAMBDA id : /\ id >= 1 /\ id <= BASE_MAX_ID
                             /\ Digits(id) = filter /\ id \notin lookup)
  ELSE SortAscending({id \in 1..BASE_MAX_ID :
                        id \notin lookup /\ MatchesFilter(id, filter)})

\* the number of ids of the base range that the loop counts
BaseTotal(filter, lookup) ==
  IF filter = <<>>
  THEN BASE_MAX_ID - Cardinality({id \in lookup : id >= 1 /\ id <= BASE_MAX_ID})
  ELSE Len(BaseMatches(filter, lookup, BASE_MAX_ID))

\* items: the matches numbered offset+1 .. offset+limit
PageOf(matches, offset, limit) ==
  SubSeq(matches, offset + 1, Min(offset + limit, Len(matches)))

buildAvailableResult(query, lookup, sortedAdded) ==
  LET safeOffset == clampOffset(query.offset)
      safeLimit == clampLimit(query.limit)
      base == BaseMatches(query.filter, lookup, safeOffset + safeLimit)
      extra == SelectSeq(sortedAdded,
                         LAMBDA id : id \notin lookup /\ MatchesFilter(id, query.filter))
  IN [items |-> PageOf(base \o extra, safeOffset, safeLimit),
      total |-> BaseTotal(query.filter, lookup) + Len(extra)]

buildSelectedResult(query, selected) ==
  LET matches == SelectSeq(selected, LAMBDA id : MatchesFilter(id, query.filter))
  IN [items |-> PageOf(matches, clampOffset(query.offset), clampLimit(query.limit)),
      total |-> Len(matches)]

RECURSIVE sanitizeLoop(_, _, _)
sanitizeLoop(ids, added, result) ==
  IF ids = <<>> THEN result
  ELSE LET id == ToNumber(Head(ids)) IN
       IF \/ ~IsPositiveInteger(id)
          \/ ~hasId(id, added)
          \/ id.v \in Range(result)
       THEN sanitizeLoop(Tail(ids), added, result)
       ELSE sanitizeLoop(Tail(ids), added, Append(result, id.v))

sanitizeIds(ids, added) == sanitizeLoop(ids, added, <<>>)

(* -------------------- server: createQueryBatcher ---------------------- *)
Query(k, t, f) == [key |-> k, type |-> t, filter |-> f, offset |-> 0, limit |-> 2]

\* the queries arrays of the POST /api/query bodies
SQInputs ==
  {<<Query("a", "available", <<>>)>>,
   <<Query("a", "selected", <<>>), Query("b", "available", Digits(BASE_MAX_ID + 1))>>,
   <<Query("", "available", <<>>), Query("c", "other", <<>>)>>}

SQEnqueue(queries) ==
  /\ calls' = Append(calls, Call("sq", queries, Len(sqCycles)))
  /\ outcomes' = Append(outcomes, <<>>)
  /\ sqPending' = Append(sqPending, [queries |-> queries, resolve |-> NewWaiter])
  /\ sqTimer' = Schedule(sqTimer, QUERY_BATCH_INTERVAL)
  /\ timeouts' = ScheduleTimeouts("sq", sqTimer, QUERY_BATCH_INTERVAL)
  /\ UNCHANGED <<now, http, viewVars, sqCycles, clientVars, storeVars, ssVars, saVars>>

\* every keyed query of the pending items, in order
KeyedQueries(pending) ==
  SelectSeq(Concat([i \in DOMAIN pending |-> pending[i].queries]),
            LAMBDA query : query.key # "")

RECURSIVE KeyOrder(_, _)
\* the keys of a Map filled by set(query.key, query), in insertion order
KeyOrder(queries, keys) ==
  IF queries = <<>> THEN keys
  ELSE KeyOrder(Tail(queries),
                IF Head(queries).key \in Range(keys) THEN keys
                ELSE Append(keys, Head(queries).key))

\* keyToQuery.values(): for every key the query set last
CollectQueries(pending) ==
  LET all == KeyedQueries(pending)
      keys == KeyOrder(all, <<>>)
  IN [i \in DOMAIN keys |->
        all[CHOOSE j \in DOMAIN all :
              /\ all[j].key = keys[i]
              /\ \A l \in DOMAIN all : all[l].key = keys[i] => l <= j]]

KnownType(query) == query.type \in {"available", "selected", "selectionFull"}

\* the store as a flush reads it
Store == [addedIds |-> addedIds, addedIdCache |-> addedIdCache,
          selectedIds |-> selectedIds, selectedLookup |-> selectedLookup]

\* the result the flush computes for one collected query
ResultOf(query, store) ==
  IF query.type = "available"
  THEN buildAvailableResult(query, store.selectedLookup,
                            getSortedAdded(store.addedIds, store.addedIdCache))
  ELSE IF query.type = "selected"
  THEN buildSelectedResult(query, store.selectedIds)
  ELSE [items |-> store.selectedIds, total |-> Len(store.selectedIds)]

\* the results object: a result per key of a collected query of a known type
ResultsOf(collected, store) ==
  LET known == SelectSeq(collected, KnownType) IN
  [k \in {known[i].key : i \in DOMAIN known} |->
     ResultOf(known[CHOOSE i \in DOMAIN known : known[i].key = k], store)]

\* the response of one pending item
ResponseOf(item, results) ==
  [results |->
     [k \in {item.queries[i].key : i \in DOMAIN item.queries} \cap DOMAIN results
        |-> results[k]]]

SQFlush(t) ==
  /\ t \in DOMAIN timeouts.sq
  /\ timeouts' = Fired("sq", t, None)
  /\ sqTimer' = None
  /\ IF sqPending = <<>>
     THEN UNCHANGED <<sqPending, sqCycles, outcomes, addedIdCache>>
     ELSE LET collected == CollectQueries(sqPending)
              results == ResultsOf(collected, Store)
              c == Len(sqCycles) + 1
          IN /\ addedIdCache' =
                  IF \E i \in DOMAIN collected : collected[i].type = "available"
                  THEN Some(getSortedAdded(addedIds, addedIdCache))
                  ELSE addedIdCache
             /\ Settle([i \in DOMAIN sqPending |->
                          ResolverCall(sqPending[i].resolve,
                                       Resolved(ResponseOf(sqPending[i], results), c))])
             /\ sqCycles' = Append(sqCycles,
                                   [pending |-> sqPending, requests |-> collected,
                                    store |-> Store, at |-> now,
                                    held |-> sqPending, timerHeld |-> None])
             /\ sqPending' = Cleared(sqPending)
  /\ UNCHANGED <<now, http, viewVars, calls, clientVars, addedIds, selectedIds, selectedLookup,
                 ssVars, saVars>>

(* ------------------ server: createSelectionBatcher -------------------- *)
\* the selectedIds arrays of the POST /api/selection bodies
SSInputs ==
  {<<JsNum(1), JsNum(2)>>,
   <<JsNum(2), JsNum(1), JsNum(2)>>,
   <<JsNum(BASE_MAX_ID + 1), JsText>>}

\* a handler that commits the selection when the request arrives
SSEnqueueCommits(raw) ==
  /\ LET nextSelection == sanitizeIds(raw, addedIds) IN
     /\ calls' = Append(calls, Call("ss", nextSelection, Len(ssCycles)))
     /\ ssLatest' = Some(nextSelection)
     /\ selectedIds' = nextSelection
     /\ selectedLookup' = Range(nextSelection)
  /\ outcomes' = Append(outcomes, <<>>)
  /\ ssResolvers' = Append(ssResolvers, NewWaiter)
  /\ ssTimer' = Schedule(ssTimer, SELECTION_BATCH_INTERVAL)
  /\ timeouts' = ScheduleTimeouts("ss", ssTimer, SELECTION_BATCH_INTERVAL)
  /\ UNCHANGED <<now, viewVars, ssCycles, clientVars, addedIds, addedIdCache, sqVars, saVars>>

\* the handler of POST /api/selection: sanitizeIds, then enqueue
SSEnqueue(raw) ==
  /\ LET nextSelection == sanitizeIds(raw, addedIds) IN
     /\ calls' = Append(calls, Call("ss", nextSelection, Len(ssCycles)))
     /\ ssLatest' = Some(nextSelection)
  /\ outcomes' = Append(outcomes, <<>>)
  /\ ssResolvers' = Append(ssResolvers, NewWaiter)
  /\ ssTimer' = Schedule(ssTimer, SELECTION_BATCH_INTERVAL)
  /\ timeouts' = ScheduleTimeouts("ss", ssTimer, SELECTION_BATCH_INTERVAL)
  /\ UNCHANGED <<now, viewVars, ssCycles, clientVars, storeVars, sqVars, saVars>>

SSFlush(t) ==
  /\ t \in DOMAIN timeouts.ss
  /\ timeouts' = Fired("ss", t, None)
  /\ ssTimer' = None
  /\ IF ssLatest = None
     THEN /\ Settle(ForEach(ssResolvers, Resolved([selected |-> selectedIds], 0)))
          /\ ssResolvers' = Cleared(ssResolvers)
          /\ UNCHANGED <<ssLatest, ssCycles, selectedIds, selectedLookup>>
     ELSE /\ selectedIds' = ssLatest[1]
          /\ selectedLookup' = Range(ssLatest[1])
          /\ ssLatest' = None
          /\ Settle(ForEach(ssResolvers,
                            Resolved([selected |-> ssLatest[1]], Len(ssCycles) + 1)))
          /\ ssResolvers' = Cleared(ssResolvers)
          /\ ssCycles' = Append(ssCycles,
                                [requests |-> ssLatest[1], resolvers |-> ssResolvers,
                                 at |-> now,
                                 held |-> ssResolvers, timerHeld |-> None])
  /\ UNCHANGED <<now, http, viewVars, calls, clientVars, addedIds, addedIdCache, sqVars, saVars>>

(* --------------------- server: createAddBatcher ----------------------- *)
\* the ids arrays of the POST /api/items/batch bodies
SAInputs ==
  {<<JsNum(BASE_MAX_ID + 1), JsNum(BASE_MAX_ID + 2)>>,
   <<JsNum(BASE_MAX_ID + 1)>>,
   <<JsStr(BASE_MAX_ID + 2)>>,
   <<JsNum(1), JsText>>}

ReasonFormat == "ID must be a positive integer"
ReasonBase == "ID already exists in the base set"
ReasonAdded == "ID has already been added"

SAEnqueue(ids) ==
  /\ calls' = Append(calls, Call("sa", ids, Len(saCycles)))
  /\ outcomes' = Append(outcomes, <<>>)
  /\ saPending' = Append(saPending,
                         [ids |-> ids, idSet |-> Range(ids), resolve |-> NewWaiter])
  /\ saTimer' = Schedule(saTimer, ADD_BATCH_INTERVAL)
  /\ timeouts' = ScheduleTimeouts("sa", saTimer, ADD_BATCH_INTERVAL)
  /\ UNCHANGED <<now, http, viewVars, saCycles, clientVars, storeVars, sqVars, ssVars>>

\* requested: the ids of every pending request, in order
RequestedOf(pending) == Concat([i \in DOMAIN pending |-> pending[i].ids])

\* a classification without the test of the overflow set
ClassifyNoAdded(raw, added) ==
  LET id == ToNumber(raw) IN
  IF ~IsPositiveInteger(id) THEN [rejected |-> TRUE, id |-> raw, reason |-> ReasonFormat]
  ELSE IF id.v >= 1 /\ id.v <= BASE_MAX_ID
  THEN [rejected |-> TRUE, id |-> id, reason |-> ReasonBase]
  ELSE [rejected |-> FALSE, id |-> id, reason |-> ""]

\* a classification without the test of the base range
ClassifyNoBase(raw, added) ==
  LET id == ToNumber(raw) IN
  IF ~IsPositiveInteger(id) THEN [rejected |-> TRUE, id |-> raw, reason |-> ReasonFormat]
  ELSE IF id.v \in added THEN [rejected |-> TRUE, id |-> id, reason |-> ReasonAdded]
  ELSE [rejected |-> FALSE, id |-> id, reason |-> ""]

\* the classification of one raw candidate
Classify(raw, added) ==
  LET id == ToNumber(raw) IN
  IF ~IsPositiveInteger(id) THEN [rejected |-> TRUE, id |-> raw, reason |-> ReasonFormat]
  ELSE IF id.v >= 1 /\ id.v <= BASE_MAX_ID
  THEN [rejected |-> TRUE, id |-> id, reason |-> ReasonBase]
  ELSE IF id.v \in added THEN [rejected |-> TRUE, id |-> id, reason |-> ReasonAdded]
  ELSE [rejected |-> FALSE, id |-> id, reason |-> ""]

\* a toAdd that takes every positive integer candidate, rejected or not
ToAddOfEveryPositive(requested, added) ==
  {ToNumber(requested[i]).v :
     i \in {j \in DOMAIN requested : IsPositiveInteger(ToNumber(requested[j]))}}

\* toAdd after the classification loop
ToAddOf(requested, added) ==
  {Classify(requested[i], added).id.v :
     i \in {j \in DOMAIN requested : ~Classify(requested[j], added).rejected}}

\* rejectedGlobal after the classification loop
RejectedOf(requested, added) ==
  LET cls == [i \in DOMAIN requested |-> Classify(requested[i], added)]
      rej == SelectSeq(cls, LAMBDA x : x.rejected)
  IN [i \in DOMAIN rej |-> [id |-> rej[i].id, reason |-> rej[i].reason]]

\* the slice of the batch outcome one request is resolved with
SliceFor(req, added, rejectedGlobal) ==
  [added |-> SelectSeq(added, LAMBDA id : JsNum(id) \in req.idSet),
   rejected |-> SelectSeq(rejectedGlobal, LAMBDA item : ToNumber(item.id) \in req.idSet)]

\* a flush that leaves the cached list as it is
CacheKept(added, cache) == cache

\* if (added.length > 0) addedIdCache = null
CacheAfterAdd(added, cache) == IF Len(added) > 0 THEN None ELSE cache

SAFlush(t) ==
  /\ t \in DOMAIN timeouts.sa
  /\ timeouts' = Fired("sa", t, None)
  /\ saTimer' = None
  /\ IF saPending = <<>>
     THEN UNCHANGED <<saPending, saCycles, outcomes, addedIds, addedIdCache>>
     ELSE LET requested == RequestedOf(saPending)
              added == SortAscending(ToAddOf(requested, addedIds))
              rejectedGlobal == RejectedOf(requested, addedIds)
              c == Len(saCycles) + 1
          IN /\ addedIds' = addedIds \cup Range(added)
             /\ addedIdCache' = CacheAfterAdd(added, addedIdCache)
             /\ Settle([i \in DOMAIN saPending |->
                          ResolverCall(saPending[i].resolve,
                                       Resolved(SliceFor(saPending[i], added,
                                                         rejectedGlobal), c))])
             /\ saCycles' = Append(saCycles,
                                   [pending |-> saPending, requests |-> requested,
                                    added |-> added, rejected |-> rejectedGlobal,
                                    before |-> addedIds, at |-> now,
                                    held |-> saPending, timerHeld |-> None])
             /\ saPending' = Cleared(saPending)
  /\ UNCHANGED <<now, http, viewVars, calls, clientVars, selectedIds, selectedLookup, sqVars, ssVars>>

(* ------------- unbatched server: POST /api/items/batch ---------------- *)
RECURSIVE UnbatchedLoop(_, _, _, _)
\* the loop of the handler over the incoming ids
UnbatchedLoop(incoming, added, toAdd, rejected) ==
  IF incoming = <<>> THEN [toAdd |-> toAdd, rejected |-> rejected]
  ELSE LET raw == Head(incoming)
           id == ToNumber(raw)
       IN IF ~IsPositiveInteger(id)
          THEN UnbatchedLoop(Tail(incoming), added, toAdd,
                             Append(rejected, [id |-> raw, reason |-> ReasonFormat]))
          ELSE IF id.v >= 1 /\ id.v <= BASE_MAX_ID
          THEN UnbatchedLoop(Tail(incoming), added, toAdd,
                             Append(rejected, [id |-> id, reason |-> ReasonBase]))
          ELSE IF id.v \in added
          THEN UnbatchedLoop(Tail(incoming), added, toAdd,
                             Append(rejected, [id |-> id, reason |-> ReasonAdded]))
          ELSE UnbatchedLoop(Tail(incoming), added, toAdd \cup {id.v}, rejected)

\* the handler: the response it sends and the overflow set it leaves
UnbatchedItemsBatch(incoming, added) ==
  LET loop == UnbatchedLoop(incoming, added, {}, <<>>)
      sorted == SortAscending(loop.toAdd)
  IN [response |-> [added |-> sorted, rejected |-> loop.rejected],
      addedIds |-> added \cup Range(sorted)]

(* ------------------------------ the view ------------------------------ *)
\* the two lists of the App component
Lists == {"available", "selected"}

\* the texts the filter inputs take
Filters == {"", "1"}

\* a call of fetchAvailablePage / fetchSelectedPage whose runQuery is awaited;
\* filterAt is the debounced filter at the moment the outcome arrives
Fetch(list, filterValue, offset, append) ==
  [list |-> list, filterValue |-> filterValue, offset |-> offset,
   append |-> append, st |-> "run", filterAt |-> None]

\* a call of a state setter that no render has processed yet; `by` is the
\* fetch whose outcome made the call, 0 for a call made elsewhere
Update(set, value, merge, by) ==
  [set |-> set, value |-> value, merge |-> merge, by |-> by]

\* setAvailableLoading(true); setAvailableError(null)
FetchStarts == <<Update("loading", TRUE, FALSE, 0), Update("error", None, FALSE, 0)>>

\* setAvailableItems([]); setAvailableTotal(0); fetchAvailablePage(...)
ResetAndFetch ==
  <<Update("items", <<>>, FALSE, 0), Update("total", 0, FALSE, 0)>> \o FetchStarts

\* the state of a list when the effects of the mount have run: the first
\* render showed the initial state, the fetch of the first page is awaited
Mounted ==
  [filter |-> "", filterRef |-> "", items |-> <<>>, total |-> 0,
   loading |-> FALSE, error |-> None, effects |-> FALSE,
   updates |-> ResetAndFetch]

\* the results runQuery resolves with, and the message of its rejection
PageResults == {[items |-> <<1, 2>>, total |-> 3], [items |-> <<2, 3>>, total |-> 3]}
ErrQuery == "query failed"

RECURSIVE MergePage(_, _)
\* the updater of setAvailableItems / setSelectedItems when append is set
MergePage(prev, items) ==
  IF items = <<>> THEN prev
  ELSE MergePage(IF Head(items) \in Range(prev) THEN prev
                 ELSE Append(prev, Head(items)),
                 Tail(items))

\* the state of a list after one setter call
ApplyUpdate(v, u) ==
  CASE u.set = "items" ->
         [v EXCEPT !.items = IF u.merge THEN MergePage(@, u.value) ELSE u.value]
    [] u.set = "total" -> [v EXCEPT !.total = u.value]
    [] u.set = "loading" -> [v EXCEPT !.loading = u.value]
    [] u.set = "error" -> [v EXCEPT !.error = u.value]

RECURSIVE ApplyUpdates(_, _)
\* a render processes the setter calls in the order they were made
ApplyUpdates(v, updates) ==
  IF updates = <<>> THEN v
  ELSE ApplyUpdates(ApplyUpdate(v, Head(updates)), Tail(updates))

\* the state of a list that a render shows
Rendered(v) == [ApplyUpdates(v, v.updates) EXCEPT !.updates = <<>>]

\* App renders because setters were called.  React runs the effects a
\* render left pending before it renders again.
Render ==
  /\ \A list \in Lists : ~view[list].effects
  /\ \E list \in Lists : view[list].updates # <<>>
  /\ view' = [list \in Lists |-> Rendered(view[list])]
  /\ UNCHANGED <<fetches, http, queueVars>>

\* the debounced filter of a list takes a new value and App renders with it;
\* the effects that depend on the filter are pending
DebouncedFilterChanges(list, f) ==
  /\ \A l \in Lists : ~view[l].effects
  /\ f # view[list].filter
  /\ view' = [l \in Lists |->
                IF l = list
                THEN [Rendered(view[l]) EXCEPT !.filter = f, !.effects = TRUE]
                ELSE Rendered(view[l])]
  /\ UNCHANGED <<fetches, http, queueVars>>

\* the pending effects run: the filter ref takes the debounced filter, the
\* list is emptied and its first page is fetched
FilterEffects(list) ==
  /\ view[list].effects
  /\ view' = [view EXCEPT ![list].filterRef = view[list].filter,
                          ![list].updates = @ \o ResetAndFetch,
                          ![list].effects = FALSE]
  /\ fetches' = Append(fetches, Fetch(list, view[list].filter, 0, FALSE))
  /\ UNCHANGED <<http, queueVars>>

\* refreshAvailable / refreshSelectedList
Refresh(list) ==
  /\ view' = [view EXCEPT ![list].updates = @ \o FetchStarts]
  /\ fetches' = Append(fetches, Fetch(list, view[list].filterRef, 0, FALSE))
  /\ UNCHANGED <<http, queueVars>>

\* handleAvailableLoadMore / handleSelectedLoadMore, of the last render
LoadMore(list) ==
  /\ ~view[list].loading
  /\ Len(view[list].items) < view[list].total
  /\ view' = [view EXCEPT ![list].updates = @ \o FetchStarts]
  /\ fetches' = Append(fetches, Fetch(list, view[list].filterRef,
                                      Len(view[list].items), TRUE))
  /\ UNCHANGED <<http, queueVars>>

\* a test of the filter ref that finds no outcome stale
IsCurrentAlways(fetch) == TRUE

\* availableFilterRef.current === filterValue
IsCurrent(fetch) == view[fetch.list].filterRef = fetch.filterValue

\* runQuery resolves: the rest of the try block, and the finally block
FetchResolves(i, result) ==
  /\ fetches[i].st = "run"
  /\ LET fetch == fetches[i] IN
     /\ fetches' = [fetches EXCEPT ![i].st = "done",
                                   ![i].filterAt = Some(view[fetch.list].filter)]
     /\ view' =
          IF ~IsCurrent(fetch) THEN view
          ELSE [view EXCEPT ![fetch.list].updates =
                  @ \o <<Update("total", result.total, FALSE, i),
                         Update("items", result.items, fetch.append, i),
                         Update("loading", FALSE, FALSE, i)>>]
  /\ UNCHANGED <<http, queueVars>>

\* runQuery rejects: the catch block, and the finally block
FetchRejects(i) ==
  /\ fetches[i].st = "run"
  /\ LET fetch == fetches[i] IN
     /\ fetches' = [fetches EXCEPT ![i].st = "failed",
                                   ![i].filterAt = Some(view[fetch.list].filter)]
     /\ view' =
          IF ~IsCurrent(fetch) THEN view
          ELSE [view EXCEPT ![fetch.list].updates =
                  @ \o <<Update("error", Some(ErrQuery), FALSE, i),
                         Update("loading", FALSE, FALSE, i)>>]
  /\ UNCHANGED <<http, queueVars>>

(* ----------------------------- behaviour ------------------------------ *)
QueuesInit ==
  /\ now = 0
  /\ calls = <<>>
  /\ outcomes = <<>>
  /\ timeouts = [q \in Queues |-> <<>>]
  /\ cqPending = <<>> /\ cqTimer = None /\ cqCycles = <<>>
  /\ caPending = <<>> /\ caTimer = None /\ caCycles = <<>>
  /\ csPending = None /\ csTimer = None /\ csCycles = <<>>
  /\ addedIds = {} /\ addedIdCache = None
  /\ selectedIds = <<>> /\ selectedLookup = {}
  /\ sqPending = <<>> /\ sqTimer = None /\ sqCycles = <<>>
  /\ ssLatest = None /\ ssResolvers = <<>> /\ ssTimer = None /\ ssCycles = <<>>
  /\ saPending = <<>> /\ saTimer = None /\ saCycles = <<>>
  /\ http = {}

\* the modules are loaded and App is not mounted
Init ==
  /\ QueuesInit
  /\ view = <<>>
  /\ fetches = <<>>

\* App is mounted and the effects of the mount have run
ViewInit ==
  /\ QueuesInit
  /\ view = [list \in Lists |-> Mounted]
  /\ fetches = <<Fetch("available", "", 0, FALSE), Fetch("selected", "", 0, FALSE)>>

\* an enqueue call on one of the six queues
Enqueue ==
  \/ \E r \in CQRequests : Len(calls) < MaxCalls /\ CQEnqueue(r)
  \/ \E id \in CAIds : Len(calls) < MaxCalls /\ CAEnqueue(id)
  \/ \E p \in CSPayloads : Len(calls) < MaxCalls /\ CSEnqueue(p)
  \/ \E queries \in SQInputs : Len(calls) < MaxCalls /\ SQEnqueue(queries)
  \/ \E raw \in SSInputs :
       Len(calls) < MaxCalls /\ SSEnqueue(raw) /\ UNCHANGED http
  \/ \E ids \in SAInputs : Len(calls) < MaxCalls /\ SAEnqueue(ids)

\* the cycles whose dispatcher has not completed
Running(cycles) == {c \in DOMAIN cycles : cycles[c].st = "run"}

\* a dispatcher of a client cycle completes
DispatchDone ==
  \/ \E c \in Running(cqCycles) : \E resp \in CQResponses(cqCycles[c].requests) :
       CQDispatchDone(c, resp)
  \/ \E c \in Running(caCycles) : \E resp \in CAResponses(caCycles[c].requests) :
       CADispatchDone(c, resp)
  \/ \E c \in Running(csCycles) : \E fail \in BOOLEAN : CSDispatchDone(c, fail)

\* the callback of an outstanding timeout runs
TimerFires ==
  \/ \E i \in DOMAIN timeouts.cq : CQFlush(i)
  \/ \E i \in DOMAIN timeouts.ca : CAFlush(i)
  \/ \E i \in DOMAIN timeouts.cs : CSFlush(i)
  \/ \E i \in DOMAIN timeouts.sq : SQFlush(i)
  \/ \E i \in DOMAIN timeouts.ss : SSFlush(i)
  \/ \E i \in DOMAIN timeouts.sa : SAFlush(i)

\* Time left out: an outstanding timeout fires at some moment.
Next ==
  \/ Enqueue
  \/ DispatchDone
  \/ TimerFires

Spec == Init /\ [][Next]_vars

\* the handle the callback of queue q passes to clearTimeout
HandleCleared(q) ==
  CASE q = "cq" -> cqTimer
    [] q = "ca" -> caTimer
    [] q = "cs" -> csTimer
    [] OTHER -> None

\* the runtime takes an outstanding timeout of queue q off its list and runs
\* its callback, the flush of q.  Among the steps of Next only the flush of
\* q changes timeouts this way, so a CallbackRuns(q) step is a flush of q,
\* and it is enabled exactly when a timeout of q is outstanding.
CallbackRuns(q) ==
  \E t \in DOMAIN timeouts[q] : timeouts' = Fired(q, t, HandleCleared(q))

\* The runtime runs the callback of every timeout that is outstanding, and
\* every dispatcher that was invoked completes.
Fairness ==
  /\ \A q \in Queues : WF_timeouts(CallbackRuns(q))
  /\ WF_vars(DispatchDone)

FairSpec == Init /\ [][Next]_vars /\ Fairness

(* ------------------------- behaviour with time ------------------------ *)
\* the moments at which the outstanding timeouts fire
Deadlines == UNION {Range(timeouts[q]) : q \in Queues}

\* the inputs of the enqueue calls of the timed behaviours
TimedEnqueue ==
  \/ \E r \in {QueryRequest("p0", "1"), QueryRequest("p1", "1")} : CQEnqueue(r)
  \/ CAEnqueue(BASE_MAX_ID + 1)
  \/ CSEnqueue(<<1, 2>>)
  \/ SQEnqueue(<<Query("a", "available", <<>>)>>)
  \/ SSEnqueue(<<JsNum(1), JsNum(2)>>) /\ UNCHANGED http
  \/ SAEnqueue(<<JsNum(BASE_MAX_ID + 1)>>)

\* time passes, by one tick or up to the next deadline, never past a deadline
Tick ==
  /\ now < MaxNow
  /\ \E t \in {now + TickMs} \cup Deadlines :
       /\ t > now
       /\ \A d \in Deadlines : t <= d
       /\ now' = t
  /\ UNCHANGED <<calls, outcomes, timeouts, clientVars, serverVars, http,
                 viewVars>>

\* the callback of a timeout runs at the timeout's deadline
TimerDue ==
  \/ \E i \in DOMAIN timeouts.cq : timeouts.cq[i] <= now /\ CQFlush(i)
  \/ \E i \in DOMAIN timeouts.ca : timeouts.ca[i] <= now /\ CAFlush(i)
  \/ \E i \in DOMAIN timeouts.cs : timeouts.cs[i] <= now /\ CSFlush(i)
  \/ \E i \in DOMAIN timeouts.sq : timeouts.sq[i] <= now /\ SQFlush(i)
  \/ \E i \in DOMAIN timeouts.ss : timeouts.ss[i] <= now /\ SSFlush(i)
  \/ \E i \in DOMAIN timeouts.sa : timeouts.sa[i] <= now /\ SAFlush(i)

TimedNext ==
  \/ Tick
  \/ Len(calls) < MaxTimedCalls /\ TimedEnqueue
  \/ DispatchDone
  \/ TimerDue

TimedSpec == Init /\ [][TimedNext]_vars

(* --------- the selection, from persistSelection to the store ---------- *)
\* the ids of a payload as the JSON body of POST /api/selection carries them
JsonIds(payload) == [i \in DOMAIN payload |-> JsNum(payload[i])]

\* the client cycles whose request the server has received
Received == {h.cycle : h \in http}

\* the request of client cycle c reaches the handler of POST /api/selection
RequestArrives(c) ==
  /\ csCycles[c].st = "run"
  /\ c \notin Received
  /\ SSEnqueue(JsonIds(csCycles[c].current.payload))
  /\ http' = http \cup {[cycle |-> c, waiter |-> NewWaiter]}

\* the request of client cycle c is lost: postJson throws
RequestFails(c) ==
  /\ c \notin Received
  /\ CSDispatchDone(c, TRUE)

\* the handler has its result from the batcher and the response reaches the
\* client
ResponseArrives(c) ==
  /\ \E h \in http : h.cycle = c /\ outcomes[h.waiter] # <<>>
  /\ CSDispatchDone(c, FALSE)

\* the persistSelection calls made so far
Persisted == SelectSeq(calls, LAMBDA call : call.q = "cs")

SelectionNext ==
  \/ \E p \in CSPayloads : Len(Persisted) < MaxPersist /\ CSEnqueue(p)
  \/ \E t \in DOMAIN timeouts.cs : CSFlush(t)
  \/ \E c \in DOMAIN csCycles : RequestArrives(c)
  \/ \E c \in DOMAIN csCycles : RequestFails(c)
  \/ \E t \in DOMAIN timeouts.ss : SSFlush(t)
  \/ \E c \in DOMAIN csCycles : ResponseArrives(c)

SelectionSpec == Init /\ [][SelectionNext]_vars

(* ------------------------- the view alone ----------------------------- *)
ViewNext ==
  \/ Render
  \/ \E list \in Lists : \E f \in Filters : DebouncedFilterChanges(list, f)
  \/ \E list \in Lists : Len(fetches) < MaxFetches /\ FilterEffects(list)
  \/ \E list \in Lists : Len(fetches) < MaxFetches /\ Refresh(list)
  \/ \E list \in Lists : Len(fetches) < MaxFetches /\ LoadMore(list)
  \/ \E i \in DOMAIN fetches : \E result \in PageResults : FetchResolves(i, result)
  \/ \E i \in DOMAIN fetches : FetchRejects(i)

ViewSpec == ViewInit /\ [][ViewNext]_vars
(* =========================== properties ============================== *)
Waiters == DOMAIN calls

ClientQueues == {"cq", "ca", "cs"}

\* the enqueue of waiter w passed the validation of its queue
Accepted(w) ==
  IF calls[w].q = "cq" THEN calls[w].arg.key # ""
  ELSE IF calls[w].q = "ca" THEN calls[w].arg > 0
  ELSE TRUE

\* the batches queue q has captured so far
CyclesOf(q) ==
  CASE q = "cq" -> cqCycles [] q = "ca" -> caCycles [] q = "cs" -> csCycles
    [] q = "sq" -> sqCycles [] q = "ss" -> ssCycles [] q = "sa" -> saCycles

\* the waiters the c-th flush of q captured
CapturedBy(q, c) ==
  CASE q = "cq" -> UNION {Range(cqCycles[c].entries[i].resolvers) :
                            i \in DOMAIN cqCycles[c].entries}
    [] q = "ca" -> UNION {Range(caCycles[c].entries[i].resolvers) :
                            i \in DOMAIN caCycles[c].entries}
    [] q = "cs" -> Range(csCycles[c].current.resolvers)
    [] q = "sq" -> {sqCycles[c].pending[i].resolve : i \in DOMAIN sqCycles[c].pending}
    [] q = "ss" -> Range(ssCycles[c].resolvers)
    [] q = "sa" -> {saCycles[c].pending[i].resolve : i \in DOMAIN saCycles[c].pending}

\* the waiters in the pending state of q
PendingWaiters(q) ==
  CASE q = "cq" -> UNION {Range(cqPending[i].resolvers) : i \in DOMAIN cqPending}
    [] q = "ca" -> UNION {Range(caPending[i].resolvers) : i \in DOMAIN caPending}
    [] q = "cs" -> IF csPending = None THEN {} ELSE Range(csPending[1].resolvers)
    [] q = "sq" -> {sqPending[i].resolve : i \in DOMAIN sqPending}
    [] q = "ss" -> Range(ssResolvers)
    [] q = "sa" -> {saPending[i].resolve : i \in DOMAIN saPending}

\* the pending state of q is empty
PendingEmpty(q) ==
  CASE q = "cq" -> cqPending = <<>>
    [] q = "ca" -> caPending = <<>>
    [] q = "cs" -> csPending = None
    [] q = "sq" -> sqPending = <<>>
    [] q = "ss" -> ssLatest = None /\ ssResolvers = <<>>
    [] q = "sa" -> saPending = <<>>

\* the timer handle of q
TimerOf(q) ==
  CASE q = "cq" -> cqTimer [] q = "ca" -> caTimer [] q = "cs" -> csTimer
    [] q = "sq" -> sqTimer [] q = "ss" -> ssTimer [] q = "sa" -> saTimer

\* the accepted waiters of q enqueued in the c-th window of q: after c - 1
\* batches had been captured and before the c-th was
Window(q, c) ==
  {w \in Waiters : calls[w].q = q /\ Accepted(w) /\ calls[w].seen = c - 1}

SetMax(S) == CHOOSE x \in S : \A y \in S : y <= x
SetMin(S) == CHOOSE x \in S : \A y \in S : x <= y

\* the dispatcher of the c-th cycle of client queue q has completed
Completed(q, c) == CyclesOf(q)[c].st # "run"

\* every waiter of the set has the one outcome of waiter w
SameOutcome(ws, w) == \A v \in ws : Len(outcomes[v]) = 1 /\ outcomes[v] = outcomes[w]

(* ------------------------------- C1 ----------------------------------- *)
\* the waiters of the c-th window of the client query queue that asked for key k
CQKeyWindow(c, k) == {w \in Window("cq", c) : calls[w].arg.key = k}

C1_Client ==
  \A c \in DOMAIN cqCycles :
    LET requests == cqCycles[c].requests
        keys == {calls[w].arg.key : w \in Window("cq", c)}
    IN /\ \A i, j \in DOMAIN requests : requests[i].key = requests[j].key => i = j
       /\ {requests[i].key : i \in DOMAIN requests} = keys
       /\ \A i \in DOMAIN requests :
            LET ws == CQKeyWindow(c, requests[i].key)
                last == SetMax(ws)
            IN /\ requests[i] = calls[last].arg
               /\ Completed("cq", c) =>
                    /\ SameOutcome(ws, last)
                    /\ outcomes[last][1].ok =>
                         outcomes[last][1].val = QueryResultFor(calls[last].arg)

\* the positions <<item, index>> of the keyed queries with key k in a batch
SQPositions(pending, k) ==
  {<<i, j>> \in UNION {{<<a, b>> : b \in DOMAIN pending[a].queries} :
                         a \in DOMAIN pending} :
     pending[i].queries[j].key = k}

\* the last of them in arrival order
SQLast(pending, k) ==
  LET ps == SQPositions(pending, k)
      p == CHOOSE x \in ps :
             \A y \in ps : y[1] < x[1] \/ (y[1] = x[1] /\ y[2] <= x[2])
  IN pending[p[1]].queries[p[2]]

C1_Server ==
  \A c \in DOMAIN sqCycles :
    LET cy == sqCycles[c]
        keys == {k \in UNION {{cy.pending[i].queries[j].key :
                                 j \in DOMAIN cy.pending[i].queries} :
                                i \in DOMAIN cy.pending} : k # ""}
    IN /\ \A i, j \in DOMAIN cy.requests :
            cy.requests[i].key = cy.requests[j].key => i = j
       /\ {cy.requests[i].key : i \in DOMAIN cy.requests} = keys
       /\ \A i \in DOMAIN cy.requests :
            cy.requests[i] = SQLast(cy.pending, cy.requests[i].key)
       /\ \A i \in DOMAIN cy.pending :
            LET w == cy.pending[i].resolve IN
            /\ Len(outcomes[w]) = 1
            /\ outcomes[w][1].ok
            /\ \A j \in DOMAIN cy.pending[i].queries :
                 LET k == cy.pending[i].queries[j].key
                     response == outcomes[w][1].val.results
                 IN k # "" /\ KnownType(SQLast(cy.pending, k)) =>
                      /\ k \in DOMAIN response
                      /\ response[k] = ResultOf(SQLast(cy.pending, k), cy.store)

\* C1: KeyedLatestQueue (client BatchQueryQueue, server query batcher): a
\* cycle dispatches once, with exactly one request per distinct key of its
\* window, the last one enqueued for that key; all waiters of a key get the
\* same outcome, on success the result computed for that last request.
C1_KeyedLatest ==
  /\ C1_Client
  /\ C1_Server
  /\ \A w \in Waiters :
       Cardinality({c \in DOMAIN CyclesOf(calls[w].q) :
                      w \in CapturedBy(calls[w].q, c)}) <= 1

\* two callers asked for one key with different requests, and both were
\* resolved by the one dispatch
C1_Witness ==
  \E c \in DOMAIN cqCycles : \E v, w \in Window("cq", c) :
    /\ v < w
    /\ calls[v].arg.key = calls[w].arg.key
    /\ calls[v].arg # calls[w].arg
    /\ cqCycles[c].st = "ok"
    /\ Len(outcomes[v]) = 1 /\ outcomes[v][1].ok
    /\ outcomes[v][1].val = QueryResultFor(calls[w].arg)

(* ------------------------------- C2 ----------------------------------- *)
C2_Client ==
  \A c \in DOMAIN csCycles :
    LET ws == Window("cs", c)
        last == SetMax(ws)
    IN /\ ws # {}
       /\ csCycles[c].requests = calls[last].arg
       /\ Completed("cs", c) =>
            /\ SameOutcome(ws, last)
            /\ outcomes[last][1].cyc = c
            /\ outcomes[last][1].ok =>
                 outcomes[last][1].val = SaveResultFor(calls[last].arg)

C2_Server ==
  /\ \A c \in DOMAIN ssCycles :
       LET ws == Window("ss", c)
           last == SetMax(ws)
       IN /\ ws # {}
          /\ ssCycles[c].requests = calls[last].arg
          /\ SameOutcome(ws, last)
          /\ outcomes[last][1].ok /\ outcomes[last][1].cyc = c
          /\ outcomes[last][1].val = [selected |-> calls[last].arg]
  /\ selectedIds = IF ssCycles = <<>> THEN <<>>
                   ELSE ssCycles[Len(ssCycles)].requests

\* C2: SinglePayloadQueue (client LatestPayloadQueue, server selection
\* batcher): the payloads P1..Pn of one window lead to one dispatch (one
\* commit), made with Pn, and every one of the n waiters gets the outcome of
\* that dispatch.
C2_SinglePayload ==
  /\ C2_Client
  /\ C2_Server
  /\ \A q \in {"cs", "ss"} : \A w \in Window(q, Len(CyclesOf(q)) + 1) :
       outcomes[w] = <<>>

\* two payloads in one window of the client queue: the superseded caller was
\* resolved with the result of the dispatch of the second payload
C2_Witness ==
  \E c \in DOMAIN csCycles : \E v, w \in Window("cs", c) :
    /\ v < w
    /\ calls[v].arg # calls[w].arg
    /\ csCycles[c].st = "ok"
    /\ Len(outcomes[v]) = 1
    /\ outcomes[v][1].val = SaveResultFor(calls[w].arg)

(* ------------------------------- C3 ----------------------------------- *)
\* the candidates of a batch of the add batcher that are to be accepted:
\* positive integers outside the base range that were not in the overflow set
SAExpected(cy) ==
  {ToNumber(raw).v :
     raw \in {x \in UNION {Range(cy.pending[i].ids) : i \in DOMAIN cy.pending} :
                /\ IsPositiveInteger(ToNumber(x))
                /\ ToNumber(x).v > BASE_MAX_ID
                /\ ToNumber(x).v \notin cy.before}}

\* the accepted list the caller of item i of the batch was resolved with
SAAcceptedOf(cy, i) == outcomes[cy.pending[i].resolve][1].val.added

\* C3: AccumulatingSetQueue (server add batcher): in every flushed batch the
\* union of the callers' accepted lists is the accepted set of the whole
\* batch, the overflow set receives exactly that set, and an accepted item is
\* in the accepted list of every caller that requested it, exactly once.
C3_AcceptedSlices ==
  /\ \A c \in DOMAIN saCycles :
       LET cy == saCycles[c] IN
       /\ UNION {Range(SAAcceptedOf(cy, i)) : i \in DOMAIN cy.pending} = SAExpected(cy)
       /\ Range(cy.added) = SAExpected(cy)
       /\ \A i \in DOMAIN cy.pending : \A id \in SAExpected(cy) :
            (\E j \in DOMAIN cy.pending[i].ids :
               ToNumber(cy.pending[i].ids[j]) = JsNum(id))
            => Cardinality({j \in DOMAIN SAAcceptedOf(cy, i) :
                              SAAcceptedOf(cy, i)[j] = id}) = 1
  /\ addedIds = UNION {SAExpected(saCycles[c]) : c \in DOMAIN saCycles}

(* ------------------------------- C4 ----------------------------------- *)
\* waiter w has the single outcome: rejected with the error of cycle c of q
FailedBy(w, q, c) ==
  /\ Len(outcomes[w]) = 1
  /\ ~outcomes[w][1].ok
  /\ outcomes[w][1].val = DispatchError(q, c)

\* C4: if the dispatcher of a cycle of a client queue fails, every waiter
\* captured in that cycle is rejected with that error and none is resolved.
C4_UniformFailure ==
  \A q \in ClientQueues : \A c \in DOMAIN CyclesOf(q) :
    CyclesOf(q)[c].st = "fail" => \A w \in Window(q, c) : FailedBy(w, q, c)

\* a failed dispatch of a batch of two entries: both waiters were rejected
C4_Witness ==
  \E c \in DOMAIN cqCycles : \E v, w \in Window("cq", c) :
    /\ cqCycles[c].st = "fail"
    /\ calls[v].arg.key # calls[w].arg.key
    /\ FailedBy(v, "cq", c) /\ FailedBy(w, "cq", c)

(* ------------------------------- C5 ----------------------------------- *)
\* C5: a waiter of a client queue gets its outcome from the cycle of its own
\* window only; the error of another cycle never reaches it.
C5_FailureIsolation ==
  \A w \in Waiters :
    (calls[w].q \in ClientQueues /\ Accepted(w)) =>
      \A i \in DOMAIN outcomes[w] :
        /\ outcomes[w][i].cyc = calls[w].seen + 1
        /\ \A k \in DOMAIN CyclesOf(calls[w].q) :
             k # calls[w].seen + 1 =>
               outcomes[w][i].val # DispatchError(calls[w].q, k)

\* the first cycle failed and rejected its waiter; a waiter enqueued after
\* its capture was resolved by the second cycle
C5_Witness ==
  \E q \in ClientQueues : \E v \in Window(q, 1) : \E w \in Window(q, 2) :
    /\ Len(CyclesOf(q)) = 2
    /\ CyclesOf(q)[1].st = "fail" /\ FailedBy(v, q, 1)
    /\ CyclesOf(q)[2].st = "ok"
    /\ Len(outcomes[w]) = 1 /\ outcomes[w][1].ok /\ outcomes[w][1].cyc = 2

(* ------------------------------- C6 ----------------------------------- *)
\* C6: in all six queues a waiter gets at most one outcome and is captured
\* by at most one cycle.
C6_AtMostOneOutcome ==
  \A w \in Waiters :
    /\ Len(outcomes[w]) <= 1
    /\ Cardinality({c \in DOMAIN CyclesOf(calls[w].q) :
                      w \in CapturedBy(calls[w].q, c)}) <= 1

\* two cycles of one queue have run, and each of the two waiters has exactly
\* one outcome
C6_Witness ==
  \E q \in Queues :
    /\ Len(CyclesOf(q)) = 2
    /\ \A c \in 1..2 : q \in ClientQueues => Completed(q, c)
    /\ Cardinality(Waiters) = 2
    /\ \A w \in Waiters : calls[w].q = q /\ Len(outcomes[w]) = 1

(* ------------------------------- C9 ----------------------------------- *)
\* C9: a flush captures exactly the waiters enqueued since the previous
\* capture; a later enqueue stays pending, under a timer of its own, is not
\* in the dispatcher's input and gets its outcome from its own cycle.
C9_DisjointCycles ==
  \A q \in Queues :
    /\ \A c \in DOMAIN CyclesOf(q) : CapturedBy(q, c) = Window(q, c)
    /\ PendingWaiters(q) = Window(q, Len(CyclesOf(q)) + 1)
    /\ PendingWaiters(q) # {} => timeouts[q] # <<>>
    /\ \A w \in Waiters : \A i \in DOMAIN outcomes[w] :
         (calls[w].q = q /\ Accepted(w)) => outcomes[w][i].cyc = calls[w].seen + 1
    /\ q = "cq" => \A c \in DOMAIN cqCycles :
         Range(cqCycles[c].requests) \subseteq {calls[w].arg : w \in Window(q, c)}
    /\ q = "ca" => \A c \in DOMAIN caCycles :
         Range(caCycles[c].requests) = {calls[w].arg : w \in Window(q, c)}

\* while the dispatcher of a cycle runs, a new waiter is pending under a
\* new timer
C9_Witness ==
  \E q \in {"cq", "ca"} : \E c \in DOMAIN CyclesOf(q) : \E w \in PendingWaiters(q) :
    /\ CyclesOf(q)[c].st = "run"
    /\ calls[w].seen = c
    /\ w \notin CapturedBy(q, c)
    /\ outcomes[w] = <<>>
    /\ Len(timeouts[q]) = 1

(* ------------------------------- C10 ---------------------------------- *)
\* C10: every queue has at most one outstanding timeout, and has one (and a
\* timer handle) exactly when its pending state is not empty.
C10_TimerIffPending ==
  \A q \in Queues :
    /\ Len(timeouts[q]) <= 1
    /\ timeouts[q] # <<>> <=> ~PendingEmpty(q)
    /\ TimerOf(q) # None <=> timeouts[q] # <<>>

\* a second enqueue joined a pending batch without a second timeout
C10_Witness ==
  \E q \in Queues :
    /\ Cardinality(PendingWaiters(q)) = 2
    /\ Len(timeouts[q]) = 1
    /\ TimerOf(q) = Some(timeouts[q][1])

(* ------------------------------- C7 ----------------------------------- *)
\* no queue has a pending entry, a timer or a running dispatcher
Quiescent ==
  /\ \A q \in Queues : PendingEmpty(q) /\ timeouts[q] = <<>> /\ TimerOf(q) = None
  /\ \A q \in ClientQueues : \A c \in DOMAIN CyclesOf(q) : Completed(q, c)

\* waiter w exists, was accepted into its queue and has an outcome
Settled(w) == w \in Waiters /\ Accepted(w) /\ outcomes[w] # <<>>

\* C7: when timeouts fire and dispatchers complete, every accepted waiter
\* eventually gets an outcome, and once the enqueues have stopped every
\* queue is empty again, without a timer.
C7_Liveness ==
  /\ \A w \in 1..MaxCalls : (w \in Waiters /\ Accepted(w)) ~> Settled(w)
  /\ <>[]Quiescent

\* every call was made, every accepted waiter has its outcome, and the
\* queues are empty
C7_Witness ==
  /\ Quiescent
  /\ Len(calls) = MaxCalls
  /\ \E w \in Waiters : Settled(w) /\ outcomes[w][1].cyc # 0
  /\ \A w \in Waiters : outcomes[w] # <<>>

(* ------------------------------- C8 ----------------------------------- *)
\* the batch window of queue q
WindowMs(q) ==
  CASE q = "cq" -> queryQueueIntervalMs
    [] q = "ca" -> addQueueIntervalMs
    [] q = "cs" -> selectionQueueIntervalMs
    [] q = "sq" -> QUERY_BATCH_INTERVAL
    [] q = "ss" -> SELECTION_BATCH_INTERVAL
    [] q = "sa" -> ADD_BATCH_INTERVAL

\* the first waiter of the window of w; its enqueue found the queue empty
FirstOfWindow(w) == SetMin(Window(calls[w].q, calls[w].seen + 1))

\* C8 as stated: a waiter enqueued into an empty queue with window W has
\* its outcome no later than W after the enqueue.
C8_LatencyBound ==
  \A w \in Waiters :
    (Accepted(w) /\ w = FirstOfWindow(w) /\ outcomes[w] # <<>>) =>
      outcomes[w][1].at <= calls[w].at + WindowMs(calls[w].q)

\* C8 amended: the batch of a window is captured, and its dispatcher
\* invoked, exactly W after the first enqueue of the window, however many
\* enqueues follow; a server waiter has its outcome at that moment, a client
\* waiter when its dispatcher completes, not before.
C8_FlushWithinWindow ==
  \A w \in Waiters :
    Accepted(w) =>
      LET q == calls[w].q
          c == calls[w].seen + 1
          due == calls[FirstOfWindow(w)].at + WindowMs(q)
      IN /\ c \notin DOMAIN CyclesOf(q) => now <= due /\ outcomes[w] = <<>>
         /\ c \in DOMAIN CyclesOf(q) =>
              /\ CyclesOf(q)[c].at = due
              /\ outcomes[w] # <<>> =>
                   IF q \in ClientQueues THEN outcomes[w][1].at >= due
                   ELSE outcomes[w][1].at = due

\* two enqueues at different moments of one window: both waiters have their
\* outcome from the flush that ran W after the first
C8_Witness ==
  \E q \in Queues : \E c \in DOMAIN CyclesOf(q) : \E v, w \in Window(q, c) :
    /\ calls[v].at < calls[w].at
    /\ CyclesOf(q)[c].at = calls[v].at + WindowMs(q)
    /\ outcomes[v] # <<>> /\ outcomes[w] # <<>>
    /\ outcomes[w][1].at <= calls[v].at + WindowMs(q)

(* ------------------------------- C11 ---------------------------------- *)
\* the call this step makes, when it is an enqueue
NewCall == calls'[Len(calls')]

\* this step is an enqueue on a client queue that fails the validation
InvalidEnqueueStep ==
  /\ Len(calls') = Len(calls) + 1
  /\ \/ NewCall.q = "cq" /\ NewCall.arg.key = ""
     \/ NewCall.q = "ca" /\ NewCall.arg <= 0

\* the validation error of client queue q
ValidationError(q) == IF q = "cq" THEN ErrNoKey ELSE ErrBadId

\* waiter w was rejected by the validation of its queue, at its enqueue
RejectedAtEnqueue(w) ==
  outcomes[w] = <<[ok |-> FALSE, val |-> ValidationError(calls[w].q),
                   cyc |-> 0, at |-> calls[w].at]>>

\* C11: an enqueue on BatchQueryQueue without a key, or on AddQueue with an
\* id that is not positive, rejects its own waiter at once and changes
\* nothing else: pending entries, timers, timeouts, cycles and the outcomes
\* of the other waiters stay as they were; the waiter never is in a pending
\* entry or in a captured batch, and its request never is in a dispatch.
C11_LocalValidation ==
  /\ [][InvalidEnqueueStep =>
          /\ outcomes' = Append(outcomes,
                                <<Rejected(ValidationError(NewCall.q), 0)>>)
          /\ UNCHANGED <<now, timeouts, clientVars, serverVars>>]_vars
  /\ [](\A w \in Waiters :
          (calls[w].q \in {"cq", "ca"} /\ ~Accepted(w)) =>
            /\ RejectedAtEnqueue(w)
            /\ w \notin PendingWaiters(calls[w].q)
            /\ \A c \in DOMAIN CyclesOf(calls[w].q) :
                 /\ w \notin CapturedBy(calls[w].q, c)
                 /\ calls[w].arg \notin Range(CyclesOf(calls[w].q)[c].requests))

\* a valid enqueue armed the timer, then an invalid one on the same queue was
\* rejected and left the pending entry and the timer as they were
C11_Witness ==
  \E v, w \in Waiters :
    /\ v < w /\ calls[v].q = calls[w].q /\ calls[w].q \in {"cq", "ca"}
    /\ Accepted(v) /\ ~Accepted(w)
    /\ RejectedAtEnqueue(w)
    /\ PendingWaiters(calls[w].q) = {v}
    /\ TimerOf(calls[w].q) # None
    /\ outcomes[v] = <<>>

(* ------------------------------- C12 ---------------------------------- *)
\* the waiters of entry i of the c-th batch of the client query queue
CQEntryWaiters(c, i) == Range(cqCycles[c].entries[i].resolvers)

\* waiter w has the single outcome o of cycle c
HasOutcome(w, ok, val, c) ==
  /\ Len(outcomes[w]) = 1
  /\ outcomes[w][1].ok = ok /\ outcomes[w][1].val = val /\ outcomes[w][1].cyc = c

\* C12: when the dispatcher of a batch of BatchQueryQueue returns a map,
\* the waiters of a key the map lacks are all rejected with the
\* missing-result error, and the waiters of a key the map holds are all
\* resolved with the result the map holds for that key.
C12_MissingResult ==
  \A c \in DOMAIN cqCycles :
    cqCycles[c].st = "ok" =>
      LET map == cqCycles[c].resp[1].map IN
      \A i \in DOMAIN cqCycles[c].entries : \A w \in CQEntryWaiters(c, i) :
        IF map[i] = None
        THEN HasOutcome(w, FALSE, ErrMissing, c)
        ELSE HasOutcome(w, TRUE, map[i][1], c)

\* a batch of two keys whose response held a result for one key only: the
\* waiter of the other key was rejected, the waiter of that key resolved
C12_Witness ==
  \E c \in DOMAIN cqCycles : \E i, j \in DOMAIN cqCycles[c].entries :
    /\ cqCycles[c].st = "ok"
    /\ cqCycles[c].resp[1].map[i] = None
    /\ cqCycles[c].resp[1].map[j] # None
    /\ \A w \in CQEntryWaiters(c, i) : HasOutcome(w, FALSE, ErrMissing, c)
    /\ \A w \in CQEntryWaiters(c, j) :
         HasOutcome(w, TRUE, QueryResultFor(cqCycles[c].entries[j].request), c)

(* ------------------------------- C13 ---------------------------------- *)
\* the slice the caller of item i of batch cy of the add batcher got
SASliceOf(cy, i) == outcomes[cy.pending[i].resolve][1].val

\* the entry `item` of a rejected list, or the id `n` of an accepted list,
\* is the submitted value raw
RejectedItemIs(item, raw) ==
  \/ item.id = raw
  \/ IsPositiveInteger(ToNumber(raw)) /\ item.id = ToNumber(raw)
AcceptedIdIs(n, raw) == ToNumber(raw) = JsNum(n)

\* C13: every caller of the add batcher finds each value it submitted in
\* exactly one of its accepted and rejected lists, whatever the value is,
\* and finds nothing else in them.
C13_PerCallerVisibility ==
  \A c \in DOMAIN saCycles :
    LET cy == saCycles[c] IN
    \A i \in DOMAIN cy.pending :
      LET slice == SASliceOf(cy, i)
          ids == cy.pending[i].ids
      IN /\ \A j \in DOMAIN ids :
              (\E n \in Range(slice.added) : AcceptedIdIs(n, ids[j]))
                # (\E item \in Range(slice.rejected) : RejectedItemIs(item, ids[j]))
         /\ \A n \in Range(slice.added) :
              \E j \in DOMAIN ids : AcceptedIdIs(n, ids[j])
         /\ \A item \in Range(slice.rejected) :
              \E j \in DOMAIN ids : RejectedItemIs(item, ids[j])

(* ------------------------------- C14 ---------------------------------- *)
\* the verdict the precedence gives candidate raw when the overflow set is
\* `before`: the reason of its rejection, or "" when it is accepted
Verdict(raw, before) ==
  CASE ~IsPositiveInteger(ToNumber(raw)) -> ReasonFormat
    [] IsPositiveInteger(ToNumber(raw)) /\ ToNumber(raw).v <= BASE_MAX_ID -> ReasonBase
    [] IsPositiveInteger(ToNumber(raw)) /\ ToNumber(raw).v > BASE_MAX_ID
         /\ ToNumber(raw).v \in before -> ReasonAdded
    [] OTHER -> ""

\* the overflow set after the c-th flush of the add batcher
SAAfter(c) == IF c < Len(saCycles) THEN saCycles[c + 1].before ELSE addedIds

\* C14: in every flush of the add batcher each candidate is rejected with
\* the format reason, else with the base-set reason, else with the
\* already-added reason, else accepted, in this precedence; the accepted list
\* is strictly ascending, and the flush adds exactly the accepted ids to the
\* overflow set.
C14_Precedence ==
  \A c \in DOMAIN saCycles :
    LET cy == saCycles[c] IN
    /\ \A j \in DOMAIN cy.requests :
         LET raw == cy.requests[j]
             v == Verdict(raw, cy.before)
         IN IF v = ""
            THEN /\ ToNumber(raw).v \in Range(cy.added)
                 /\ \A k \in DOMAIN cy.rejected : ~RejectedItemIs(cy.rejected[k], raw)
            ELSE /\ \E k \in DOMAIN cy.rejected :
                      RejectedItemIs(cy.rejected[k], raw) /\ cy.rejected[k].reason = v
                 /\ \A k \in DOMAIN cy.rejected :
                      RejectedItemIs(cy.rejected[k], raw) => cy.rejected[k].reason = v
                 /\ ToNumber(raw) \notin {JsNum(n) : n \in Range(cy.added)}
    /\ \A n \in Range(cy.added) :
         \E j \in DOMAIN cy.requests : ToNumber(cy.requests[j]) = JsNum(n)
    /\ \A j, k \in DOMAIN cy.added : j < k => cy.added[j] < cy.added[k]
    /\ SAAfter(c) = cy.before \cup Range(cy.added)

\* a flush whose batch held an id accepted by an earlier flush and a new
\* id: the first was rejected as already added, the second accepted
C14_Witness ==
  \E c \in DOMAIN saCycles : \E j, k \in DOMAIN saCycles[c].requests :
    /\ Verdict(saCycles[c].requests[j], saCycles[c].before) = ReasonAdded
    /\ Verdict(saCycles[c].requests[k], saCycles[c].before) = ""
    /\ saCycles[c].added = <<ToNumber(saCycles[c].requests[k]).v>>
    /\ SAAfter(c) = saCycles[c].before \cup Range(saCycles[c].added)

(* ------------------------------- C15 ---------------------------------- *)
\* no two entries of the rejected list are about the same item
DistinctItems(rejected) ==
  \A j, k \in DOMAIN rejected : rejected[j].id = rejected[k].id => j = k

\* C15: a flush of the add batcher classifies each distinct candidate once:
\* the rejected list of the batch, and the rejected list of every caller,
\* holds at most one entry per item.
C15_ClassifiedOnce ==
  \A c \in DOMAIN saCycles :
    /\ DistinctItems(saCycles[c].rejected)
    /\ \A i \in DOMAIN saCycles[c].pending :
         DistinctItems(SASliceOf(saCycles[c], i).rejected)

(* ------------------------------- C16 ---------------------------------- *)
\* request j of batch d of the add batcher submits again the id n that
\* batch c accepted
Resubmits(c, d, j, n) ==
  /\ c < d
  /\ n \in Range(saCycles[c].added)
  /\ ToNumber(saCycles[d].requests[j]) = JsNum(n)

\* C16: an id that a flush of the add batcher accepted is, in every later
\* flush that holds it as a candidate, rejected as already added and not
\* accepted again; it stays in the overflow set, a batch of such candidates
\* only leaves the overflow set as it was, and a caller that submitted the id
\* as a number is resolved with that rejection.
C16_Idempotence ==
  \A c, d \in DOMAIN saCycles :
    LET cy == saCycles[d] IN
    /\ \A j \in DOMAIN cy.requests : \A n \in Range(saCycles[c].added) :
         Resubmits(c, d, j, n) =>
           /\ n \notin Range(cy.added)
           /\ \E k \in DOMAIN cy.rejected :
                cy.rejected[k].id = JsNum(n) /\ cy.rejected[k].reason = ReasonAdded
           /\ \A k \in DOMAIN cy.rejected :
                cy.rejected[k].id = JsNum(n) => cy.rejected[k].reason = ReasonAdded
           /\ n \in cy.before /\ n \in SAAfter(d)
           /\ \A i \in DOMAIN cy.pending :
                JsNum(n) \in Range(cy.pending[i].ids) =>
                  /\ n \notin Range(SASliceOf(cy, i).added)
                  /\ \E k \in DOMAIN SASliceOf(cy, i).rejected :
                       SASliceOf(cy, i).rejected[k] = [id |-> JsNum(n), reason |-> ReasonAdded]
    /\ (\A j \in DOMAIN cy.requests : \E b \in 1..(d - 1) :
          \E n \in Range(saCycles[b].added) : Resubmits(b, d, j, n))
         => SAAfter(d) = cy.before

\* an id accepted by the first flush was submitted again, as a number, in the
\* second: rejected as already added, the overflow set as it was
C16_Witness ==
  \E c, d \in DOMAIN saCycles : \E n \in Range(saCycles[c].added) :
    /\ \A j \in DOMAIN saCycles[d].requests : Resubmits(c, d, j, n)
    /\ saCycles[d].requests[1] = JsNum(n)
    /\ saCycles[d].added = <<>>
    /\ saCycles[d].rejected = <<[id |-> JsNum(n), reason |-> ReasonAdded]>>
    /\ SAAfter(d) = saCycles[d].before
    /\ SASliceOf(saCycles[d], 1).rejected = saCycles[d].rejected

(* ------------------------------- C17 ---------------------------------- *)
\* this step runs the callback of a timeout of queue q
FlushStep(q) == Len(timeouts'[q]) < Len(timeouts[q])

\* C17: in the single-payload queues no payload pending means no waiter
\* waiting: on the server latest = null implies that resolvers is empty, on
\* the client an unsettled waiter is in the pending entry or in a captured
\* batch whose dispatcher runs.  A flush that finds no payload dispatches
\* and commits nothing and resolves no waiter, and no waiter ever gets its
\* outcome from the server's branch for a flush without a payload.
C17_NoOpFlush ==
  /\ [](ssLatest = None => ssResolvers = <<>>)
  /\ [](\A w \in Waiters :
          /\ (calls[w].q = "ss" /\ outcomes[w] = <<>>) =>
               ssLatest # None /\ w \in Range(ssResolvers)
          /\ calls[w].q = "ss" =>
               \A k \in DOMAIN outcomes[w] : outcomes[w][k].cyc # 0
          /\ (calls[w].q = "cs" /\ outcomes[w] = <<>>) =>
               \/ csPending # None /\ w \in Range(csPending[1].resolvers)
               \/ \E c \in DOMAIN csCycles :
                    csCycles[c].st = "run" /\ w \in Range(csCycles[c].current.resolvers))
  /\ [][/\ (FlushStep("ss") /\ ssLatest = None) =>
             UNCHANGED <<outcomes, ssCycles, selectedIds, selectedLookup>>
        /\ (FlushStep("cs") /\ csPending = None) =>
             UNCHANGED <<outcomes, csCycles>>]_vars

\* after a commit of two payloads of one window the server's selection
\* batcher holds no payload and no waiter; both waiters have the outcome of
\* that commit
C17_Witness ==
  /\ ssLatest = None /\ ssResolvers = <<>> /\ ssTimer = None
  /\ Len(ssCycles) = 1 /\ Len(ssCycles[1].resolvers) = 2
  /\ \A w \in Range(ssCycles[1].resolvers) :
       Len(outcomes[w]) = 1 /\ outcomes[w][1].cyc = 1

(* ------------------------------- C18 ---------------------------------- *)
\* the requests the calls of the waiters ws made
ArgsOf(ws) == {calls[w].arg : w \in ws}

\* the requests the dispatcher of the c-th batch of client queue q was
\* invoked with
DispatchedIn(q, c) ==
  IF q = "cs" THEN {csCycles[c].requests} ELSE Range(CyclesOf(q)[c].requests)

\* C18: a client queue invokes its dispatcher once per captured batch and
\* never again for it: every batch holds exactly the waiters enqueued since
\* the batch before, at least one, and dispatches only requests of their
\* calls; a completed batch stays as it is; the completion of a dispatcher,
\* failed or not, leaves pending entries, timer and timeouts as they were;
\* and a batch is only captured by a flush.
C18_NoRetry ==
  /\ [](\A q \in ClientQueues : \A c \in DOMAIN CyclesOf(q) :
          /\ CapturedBy(q, c) = Window(q, c)
          /\ Window(q, c) # {}
          /\ DispatchedIn(q, c) \subseteq ArgsOf(Window(q, c)))
  /\ [][\A q \in ClientQueues :
          /\ \A c \in DOMAIN CyclesOf(q) :
               /\ c \in DOMAIN CyclesOf(q)'
               /\ Completed(q, c) => CyclesOf(q)'[c] = CyclesOf(q)[c]
               /\ (~Completed(q, c) /\ Completed(q, c)') =>
                    /\ Len(CyclesOf(q)') = Len(CyclesOf(q))
                    /\ UNCHANGED <<timeouts, cqPending, cqTimer, caPending, caTimer,
                                   csPending, csTimer>>
          /\ Len(CyclesOf(q)') > Len(CyclesOf(q)) =>
               /\ Len(CyclesOf(q)') = Len(CyclesOf(q)) + 1
               /\ FlushStep(q) /\ ~PendingEmpty(q)]_vars

\* the dispatcher of the first batch failed and a caller enqueued again: the
\* second batch holds that caller's waiter only, and the waiter of the failed
\* batch has its one rejection
C18_Witness ==
  \E q \in ClientQueues :
    /\ Len(CyclesOf(q)) = 2
    /\ CyclesOf(q)[1].st = "fail"
    /\ CapturedBy(q, 1) = {1} /\ CapturedBy(q, 2) = {2}
    /\ FailedBy(1, q, 1)
    /\ calls[1].arg = calls[2].arg

(* ------------------------------- C19 ---------------------------------- *)
\* this step is an enqueue on queue q that passes the validation of q
AcceptedEnqueueStep(q) ==
  /\ Len(calls') = Len(calls) + 1
  /\ NewCall.q = q
  /\ q = "cq" => NewCall.arg.key # ""
  /\ q = "ca" => NewCall.arg > 0

\* the waiters of the window of q that is open: enqueued since the last
\* batch of q was captured
OpenWindow(q) == Window(q, Len(CyclesOf(q)) + 1)

\* C19: the timer of a batch is armed by the first enqueue into the empty
\* queue, for one window length from that moment; the later enqueues of the
\* window leave the timer and the outstanding timeout as they are; so there
\* is one timeout per window, due one window length after the first enqueue
\* of the window, and the flush runs at that moment.
C19_ArmedOnce ==
  /\ [][\A q \in Queues :
          AcceptedEnqueueStep(q) =>
            IF PendingEmpty(q)
            THEN /\ timeouts[q] = <<>>
                 /\ timeouts'[q] = <<now + WindowMs(q)>>
                 /\ TimerOf(q)' = Some(now + WindowMs(q))
            ELSE /\ timeouts'[q] = timeouts[q]
                 /\ TimerOf(q)' = TimerOf(q)]_vars
  /\ [](\A q \in Queues :
          /\ Len(timeouts[q]) <= 1
          /\ OpenWindow(q) # {} =>
               timeouts[q] = <<calls[SetMin(OpenWindow(q))].at + WindowMs(q)>>
          /\ \A c \in DOMAIN CyclesOf(q) :
               CyclesOf(q)[c].at = calls[SetMin(Window(q, c))].at + WindowMs(q))

\* two enqueues at different moments wait in one window: the one timeout
\* outstanding is that of the first
C19_Witness ==
  \E q \in Queues : \E v, w \in OpenWindow(q) :
    /\ calls[v].at < calls[w].at
    /\ PendingWaiters(q) = {v, w}
    /\ timeouts[q] = <<calls[v].at + WindowMs(q)>>
    /\ TimerOf(q) = Some(calls[v].at + WindowMs(q))
    /\ now > calls[w].at

(* ------------------------------- C20 ---------------------------------- *)
\* the call of waiter w on the server's query batcher holds a query without
\* a key
KeylessQuery(w) ==
  calls[w].q = "sq" /\ \E j \in DOMAIN calls[w].arg : calls[w].arg[j].key = ""

\* C20: a query without a key fails on the server's query batcher with a
\* validation error before it enters a batch: its waiter is rejected at the
\* enqueue and is never in the pending list or in a flushed batch.
C20_ServerKeyValidation ==
  \A w \in Waiters :
    KeylessQuery(w) =>
      /\ Len(outcomes[w]) = 1 /\ ~outcomes[w][1].ok
      /\ w \notin PendingWaiters("sq")
      /\ \A c \in DOMAIN sqCycles : w \notin CapturedBy("sq", c)

(* ------------------------------- C21 ---------------------------------- *)
\* the keys of the keyed queries of a queries array
KeysOf(queries) == {queries[j].key : j \in DOMAIN queries} \ {""}

\* C21: the response the server's query batcher resolves a request with
\* holds a result for every keyed query of the request, whatever its type,
\* and for no other key.
C21_ResponseKeys ==
  \A c \in DOMAIN sqCycles : \A i \in DOMAIN sqCycles[c].pending :
    LET item == sqCycles[c].pending[i] IN
    DOMAIN outcomes[item.resolve][1].val.results = KeysOf(item.queries)

(* ------------------------------- C22 ---------------------------------- *)
\* the result under key k in the response the c-th query flush gave item i
SQResultOf(c, i, k) == outcomes[sqCycles[c].pending[i].resolve][1].val.results[k]

\* the elements of items are elements of seq, in the order of seq
InOrderOf(items, seq) ==
  \E f \in [DOMAIN items -> DOMAIN seq] :
    /\ \A m \in DOMAIN items : items[m] = seq[f[m]]
    /\ \A m, n \in DOMAIN items : m < n => f[m] < f[n]

\* C22: the lookup set is the set of the ids of the committed selection;
\* no item of an `available` result is in the selection committed when the
\* flush computed it, and the items of a `selected` result are ids of that
\* selection in its order.
C22_AvailableExcludesSelected ==
  /\ selectedLookup = Range(selectedIds)
  /\ \A c \in DOMAIN sqCycles :
       LET cy == sqCycles[c] IN
       /\ cy.store.selectedLookup = Range(cy.store.selectedIds)
       /\ \A r \in DOMAIN cy.requests : \A i \in DOMAIN cy.pending :
            LET query == cy.requests[r] IN
            (KnownType(query) /\ query.key \in KeysOf(cy.pending[i].queries)) =>
              LET result == SQResultOf(c, i, query.key) IN
              /\ query.type = "available" =>
                   Range(result.items) \cap Range(cy.store.selectedIds) = {}
              /\ query.type = "selected" =>
                   InOrderOf(result.items, cy.store.selectedIds)

\* an `available` query flushed after the selection <<2, 1>> was committed:
\* its page holds the first ids that are not selected
C22_Witness ==
  \E c \in DOMAIN sqCycles :
    /\ sqCycles[c].store.selectedIds = <<2, 1>>
    /\ sqCycles[c].requests = <<Query("a", "available", <<>>)>>
    /\ SQResultOf(c, 1, "a").items = <<3, 4>>

(* ------------------------------- C23 ---------------------------------- *)
\* Every batch record holds in `held` the value the queue's pending
\* collection has, and in `timerHeld` the value its timer handle has, while
\* the dispatch work of the batch runs: the client queues clear pending and
\* timer before they call the dispatcher; the server's batchers set
\* timer = null first, but empty pending (resolvers, pendingRequests) only
\* after the results are computed and the waiters resolved.

\* C23: in every queue the flush has emptied the pending collection and
\* cleared the timer before the dispatch work of the batch runs.
C23_HandOffOrder ==
  \A q \in Queues : \A c \in DOMAIN CyclesOf(q) :
    CyclesOf(q)[c].held = <<>> /\ CyclesOf(q)[c].timerHeld = None

(* ------------------------------- C24 ---------------------------------- *)
\* C24: a batch of the client AddQueue holds the waiters of one window and
\* its dispatcher is called with each distinct id of their calls once.  When
\* the dispatcher returns, every waiter is resolved: with success when its
\* id is in the added list, else with the failure that carries the
\* rejection reason of its id, else with the failure that carries the
\* default message; the callers of one id get the same outcome.
C24_ClientAddQueue ==
  \A c \in DOMAIN caCycles :
    LET cy == caCycles[c] IN
    /\ CapturedBy("ca", c) = Window("ca", c)
    /\ Range(cy.requests) = ArgsOf(Window("ca", c))
    /\ \A j, k \in DOMAIN cy.requests : cy.requests[j] = cy.requests[k] => j = k
    /\ cy.st = "ok" =>
         \A w \in Window("ca", c) :
           LET id == calls[w].arg
               resp == cy.resp[1]
           IN /\ Len(outcomes[w]) = 1
              /\ outcomes[w][1].ok /\ outcomes[w][1].cyc = c
              /\ outcomes[w][1].val.id = id
              /\ outcomes[w][1].val.success = (id \in resp.added)
              /\ outcomes[w][1].val.message =
                   CASE id \in resp.added -> MsgAdded(id)
                     [] id \notin resp.added /\ id \in resp.rejected -> ReasonFor(id)
                     [] OTHER -> MsgNotAdded
              /\ \A v \in Window("ca", c) :
                   calls[v].arg = id => outcomes[v] = outcomes[w]

\* two callers enqueued the same id in one window; the dispatcher got the id
\* once and returned it in neither list: both callers are resolved with the
\* failure that carries the default message
C24_Witness ==
  \E c \in DOMAIN caCycles :
    /\ Window("ca", c) = {1, 2}
    /\ calls[1].arg = calls[2].arg
    /\ caCycles[c].requests = <<calls[1].arg>>
    /\ caCycles[c].st = "ok"
    /\ caCycles[c].resp[1].added = {} /\ caCycles[c].resp[1].rejected = {}
    /\ outcomes[1] = outcomes[2]
    /\ Len(outcomes[1]) = 1
    /\ outcomes[1][1].ok /\ outcomes[1][1].val.message = MsgNotAdded

(* ------------------------------- C25 ---------------------------------- *)
\* the numbers the rejected list of an add flush names
RejectedNumbers(cy) == {ToNumber(cy.rejected[i].id) : i \in DOMAIN cy.rejected}

\* C25: the overflow set holds only positive integers above BASE_MAX_ID, no
\* step removes an id from it, and in every flush of the add batcher the
\* accepted ids and the rejected ids are disjoint.
C25_OverflowSet ==
  /\ [](\A id \in addedIds : id \in Nat /\ id > BASE_MAX_ID)
  /\ [](\A c \in DOMAIN saCycles :
          {JsNum(n) : n \in Range(saCycles[c].added)}
            \cap RejectedNumbers(saCycles[c]) = {})
  /\ [][addedIds \subseteq addedIds']_vars

\* a flush added an id to the overflow set, and a later flush accepted a new
\* id while it rejected the id the earlier flush had added
C25_Witness ==
  /\ Len(saCycles) = 2
  /\ saCycles[1].added # <<>>
  /\ saCycles[2].before = Range(saCycles[1].added)
  /\ saCycles[2].added # <<>>
  /\ \E n \in saCycles[2].before : JsNum(n) \in RejectedNumbers(saCycles[2])
  /\ addedIds = saCycles[2].before \cup Range(saCycles[2].added)

(* ------------------------------- C26 ---------------------------------- *)
NoDuplicates(seq) == \A j, k \in DOMAIN seq : seq[j] = seq[k] => j = k

\* the ids of the list exist: in the base range or in the overflow set
AllExist(seq, added) ==
  \A id \in Range(seq) : id \in 1..BASE_MAX_ID \/ id \in added

\* a step in which POST /api/selection handed a selection to the batcher
SelectionEnqueueStep ==
  /\ Len(calls') = Len(calls) + 1
  /\ calls'[Len(calls')].q = "ss"

\* C26: the committed selection has no duplicate ids and each of its ids
\* exists; the selection a request hands to the batcher has no duplicates
\* and only ids that exist when the request is made.
C26_CommittedSelection ==
  /\ [](NoDuplicates(selectedIds) /\ AllExist(selectedIds, addedIds))
  /\ [](ssLatest # None =>
          NoDuplicates(ssLatest[1]) /\ AllExist(ssLatest[1], addedIds))
  /\ [][SelectionEnqueueStep =>
          /\ ssLatest' = Some(calls'[Len(calls')].arg)
          /\ NoDuplicates(ssLatest'[1])
          /\ AllExist(ssLatest'[1], addedIds)]_vars

\* an id of the overflow set was selected in a request that also carried a
\* value that is no id, and the selection was committed
C26_Witness ==
  /\ selectedIds = <<BASE_MAX_ID + 1>>
  /\ BASE_MAX_ID + 1 \in addedIds
  /\ Len(ssCycles) = 1

(* ------------------------------- C29 ---------------------------------- *)
\* the store, read from the overflow set and the committed selection alone
StoreNow == [addedIds |-> addedIds, addedIdCache |-> None,
             selectedIds |-> selectedIds, selectedLookup |-> Range(selectedIds)]

\* this step is an enqueue on a server batcher
ServerEnqueueStep ==
  /\ Len(calls') = Len(calls) + 1
  /\ NewCall.q \in {"sq", "ss", "sa"}

\* the results the query flush of this step delivered are those of the
\* overflow set and the committed selection the step started from
QueryFlushReadsStore ==
  Len(sqCycles') > Len(sqCycles) =>
    LET cy == sqCycles'[Len(sqCycles')] IN
    \A i \in DOMAIN cy.pending : \A r \in DOMAIN cy.requests :
      LET query == cy.requests[r] IN
      (KnownType(query) /\ query.key \in KeysOf(cy.pending[i].queries)) =>
        outcomes'[cy.pending[i].resolve][1].val.results[query.key]
          = ResultOf(query, StoreNow)

\* C29: an enqueue on a server batcher leaves the overflow set and the
\* committed selection as they are; the overflow set changes only in a flush
\* of the add batcher and the committed selection only in a flush of the
\* selection batcher; a flush of the query batcher changes neither, and its
\* results are computed from the store as it is at the flush.
C29_MutationsAtFlush ==
  [][/\ ServerEnqueueStep => UNCHANGED <<addedIds, selectedIds>>
     /\ addedIds' # addedIds => FlushStep("sa")
     /\ selectedIds' # selectedIds => FlushStep("ss")
     /\ FlushStep("sq") =>
          UNCHANGED <<addedIds, selectedIds>> /\ QueryFlushReadsStore]_vars

\* a selection was enqueued, then a query; the query batcher flushed first
\* and read the empty selection, and the selection flush committed later
C29_Witness ==
  /\ Len(calls) = 2
  /\ calls[1].q = "ss" /\ calls[2].q = "sq"
  /\ Len(sqCycles) = 1 /\ Len(ssCycles) = 1
  /\ sqCycles[1].store.selectedIds = <<>>
  /\ selectedIds # <<>>

(* ------------------------------- C28 ---------------------------------- *)
\* C28: a flush of the add batcher that holds a single request resolves it
\* with the accepted and rejected lists the unbatched handler of
\* POST /api/items/batch answers for the same ids and the same overflow set,
\* and leaves the overflow set as that handler leaves it.
C28_RefinesUnbatched ==
  \A c \in DOMAIN saCycles :
    LET cy == saCycles[c] IN
    Len(cy.pending) = 1 =>
      LET unbatched == UnbatchedItemsBatch(cy.pending[1].ids, cy.before) IN
      /\ SASliceOf(cy, 1) = unbatched.response
      /\ SAAfter(c) = unbatched.addedIds

(* ------------------------------- C27 ---------------------------------- *)
\* every persistSelection call was flushed and the request of every client
\* cycle got its response
AllCompleted ==
  /\ Persisted # <<>>
  /\ csPending = None
  /\ \A c \in DOMAIN csCycles : csCycles[c].st = "ok"

\* the payload of the last persistSelection call
LastPayload == Persisted[Len(Persisted)].arg

\* C27: when the requests of all persistSelection calls of the client have
\* completed, the committed selection of the server is the sanitized payload
\* of the last call, in whatever order and with whatever delay the requests
\* of the client cycles reached the server.
C27_EndToEndLastWriteWins ==
  AllCompleted => selectedIds = sanitizeIds(JsonIds(LastPayload), addedIds)

(* ------------------------------- C30 ---------------------------------- *)
\* the outcome of fetch i arrived while the debounced filter of its list
\* was not the filter the fetch was issued for
Stale(i) ==
  /\ i \in DOMAIN fetches
  /\ fetches[i].st # "run"
  /\ fetches[i].filterAt # Some(fetches[i].filterValue)

\* the runQuery of fetch i resolves or rejects in this step
Arrives(i) == fetches[i].st = "run" /\ fetches'[i].st # "run"

\* the setter calls that were not made by a stale outcome
NotByStale(updates) == SelectSeq(updates, LAMBDA u : ~Stale(u.by))

\* what the view displays of a list
Displayed(v) ==
  [items |-> v.items, total |-> v.total, error |-> v.error, loading |-> v.loading]

\* C30: the outcome of a page fetch issued for filter F that arrives while
\* the debounced filter of its list is another one changes none of the
\* items, the total, the error and the loading flag the view displays: every
\* render displays what it would display without the setter calls of such
\* outcomes, and an outcome that arrives after the effects of the filter
\* change have run makes no setter call at all.
C30_StaleDiscarded ==
  /\ [](\A list \in Lists :
          ~view[list].effects => view[list].filterRef = view[list].filter)
  /\ [][\A i \in DOMAIN fetches :
          (/\ Arrives(i)
           /\ view[fetches[i].list].filter # fetches[i].filterValue
           /\ ~view[fetches[i].list].effects) => view' = view]_vars
  /\ [][\A list \in Lists :
          Displayed(view'[list]) # Displayed(view[list]) =>
            Displayed(view'[list]) =
              Displayed(ApplyUpdates(view[list], NotByStale(view[list].updates)))]_vars

\* a fetch issued for the empty filter got its outcome after the filter had
\* changed and its effects had run; the outcome made no setter call, and the
\* view displays the page of the fetch issued for the new filter
C30_Witness ==
  \E i, k \in DOMAIN fetches :
    /\ Stale(i)
    /\ fetches[i].filterValue = ""
    /\ view[fetches[i].list].filterRef = "1"
    /\ fetches[k].list = fetches[i].list
    /\ fetches[k].filterValue = "1" /\ fetches[k].st = "done"
    /\ view[fetches[i].list].updates = <<>>
    /\ view[fetches[i].list].items # <<>>
    /\ ~view[fetches[i].list].loading

\* an outcome that is stale arrived before the effects of the filter change
\* ran: its setter calls wait behind a render that has not happened
C30_WitnessPending ==
  \E list \in Lists : \E j \in DOMAIN view[list].updates :
    Stale(view[list].updates[j].by)

(* ------------------------------- C31 ---------------------------------- *)
\* the flush of the query batcher that made batch c computed an `available`
\* result
EnumeratesOverflow(c) ==
  \E r \in DOMAIN sqCycles[c].requests : sqCycles[c].requests[r].type = "available"

\* C31: the cached sorted list of the added ids is null or the overflow set
\* in ascending order; a step that adds an id to the overflow set leaves the
\* cache null; so the list an `available` query enumerates is the overflow
\* set of the moment of its flush, in ascending order.
C31_CacheCoherence ==
  /\ [](addedIdCache = None \/ addedIdCache = Some(SortAscending(addedIds)))
  /\ [](\A c \in DOMAIN sqCycles :
          EnumeratesOverflow(c) =>
            getSortedAdded(sqCycles[c].store.addedIds, sqCycles[c].store.addedIdCache)
              = SortAscending(sqCycles[c].store.addedIds))
  /\ [][addedIds' # addedIds => addedIdCache' = None]_vars

\* an `available` query was flushed while the overflow set was empty, which
\* filled the cache with the empty list; a later flush of the add batcher
\* added an id and the cache is null again
C31_Witness ==
  /\ Len(sqCycles) = 1 /\ Len(saCycles) = 1
  /\ EnumeratesOverflow(1)
  /\ sqCycles[1].store.addedIds = {}
  /\ saCycles[1].before = {}
  /\ saCycles[1].added # <<>>
  /\ addedIds = Range(saCycles[1].added)
  /\ addedIdCache = None
====
